---- MODULE Spec2Model ----
(***************************************************************************)
(* Model of the RLM run pipeline (Ay1men2/is-cgp, backend/app/rlm).        *)
(*                                                                         *)
(* Six state machines and several library functions share this module,    *)
(* each with its own specification:                                        *)
(*   SpecPost  VllmChatCompletionsClient._post_json (retry loop)           *)
(*   SpecAsm   run_program, the assembly runner with its executor          *)
(*   SpecRun   run_rlm, the three-round orchestrator                       *)
(*   SpecExamine  concurrent calls of examine_artifact on one glimpse cache *)
(*   SpecService  concurrent requests to RlmRunService.run on one database  *)
(*   SpecRetrieve RlmRepoSQL.list_candidates over an artifacts table        *)
(*   SpecParse    VllmRootLM.generate_program / generate_final on raw texts *)
(*   SpecPipe     PipelineExecutor.execute on programs                      *)
(*   SpecGlimpse  PipelineExecutor.execute on range, grep and head glimpses *)
(*   SpecSelectExec  select programs in ProgramExecutor and PipelineExecutor *)
(*   SpecAssemble assemble_decisions over the decisions of several rounds   *)
(*   SpecJudge    run_llm_judge, the plan/decision loop of the LLM judge    *)
(*   FairSpecRun  SpecRun with the steps of run_rlm weakly fair             *)
(* A machine that a specification does not run keeps its idle state.       *)
(***************************************************************************)
EXTENDS Integers, Sequences, FiniteSets, TLC

VARIABLES
    \* ---- _post_json (adapters/inference_vllm.py) ----
    max_retries,    \* RetryPolicy.max_retries of the client
    attempt,        \* the loop variable of `for attempt in range(max_retries + 1)`
    last_error,     \* the last caught exception, NoError before any
    post_log,       \* urlopen calls and time.sleep calls, in order
    post_pc,        \* "idle" | "loop" | "returned" | "raised" | "propagated"
    \* ---- run_program (services/program_runner.py) ----
    asm_options,    \* options: program (raw), fallback_top_k
    asm_limits,     \* limits, as build_limits_snapshot returns them
    asm_index,      \* index.candidates
    asm_outcome,    \* the RunnerOutcome, NoOutcome before the call returns
    asm_pc,         \* "idle" | "call" | "returned" | "raised"
    \* ---- run_rlm (services/run_pipeline.py) ----
    run_in,         \* the arguments and options of the call, and what the world holds
    run_pc,         \* "idle" | "setup" | "plan" | "persist" | "trace" | "examine"
                    \* | "decision" | "return" | "done"
    rlm_round,      \* the round entered last (0 before Plan)
    decision_mode, decision_fallback_reason,
    rlm_executor,   \* "mock" | "real": what _select_executor returned
    rlm_status, rlm_errors, rlm_meta,
    rlm_program, rlm_events, rlm_glimpses, rlm_glimpses_meta, rlm_subcalls, rlm_evidence,
    rlm_final, rlm_final_answer, rlm_citations,
    round_error,    \* plan_error / examine_error / decision_error of the round ("" : None)
    snapshots,      \* the calls of repo.update_run_payload, in order
    trace,          \* the lines trace_logger wrote
    calls,          \* the calls to the root-LM backends and the executor, in order
    run_result,     \* the returned RunResult
    \* ---- examine_artifact (services/examine.py), one entry per concurrent call ----
    ex_in,          \* artifact_id, options and redis_client of each call
    ex_pc,          \* "idle" | "start" | "fetch" | "lookup" | "returned" | "raised", per call
    ex_out,         \* what each call returned or raised
    cache,          \* the redis keys that hold a glimpse, with their raw values
    \* ---- RlmRunService.run (app/services.py), one entry per concurrent request ----
    rq_in,          \* session, query, options and what the backends answer
    rq_pc,          \* "idle" | "service" | "setup" | "plan" | "persist" | "trace"
                    \* | "examine" | "decision" | "return" | "done" | "rejected"
    rq_run_id,      \* the id insert_run returned (0 before)
    rq_loc,         \* the local variables of run_rlm
    rq_resp,        \* the response of the service
    db_runs,        \* table rlm_runs: row i has id i; its update_run_payload writes
    db_run_events,  \* table rlm_run_events
    trace_files,    \* the trace directory: run id -> lines of <id>.jsonl
    \* ---- RlmRepoSQL.list_candidates (adapters/repos_sql.py) ----
    lc_in,          \* the artifacts table, the session and the RetrievalOptions
    lc_pc,          \* "idle" | "call" | "returned"
    lc_out,         \* the rows the statement returned and the CandidateIndex built
    \* ---- VllmRootLM.generate_program / generate_final ----
    vl_in,          \* the method called and the raw text the adapter returned
    vl_pc,          \* "idle" | "call" | "returned" | "raised"
    vl_out,         \* the result returned or the exception raised
    \* ---- PipelineExecutor.execute ----
    pe_in,          \* the program, the artifact texts and the candidates
    pe_pc,          \* "idle" | "call" | "returned"
    pe_out,         \* the returned dict
    \* ---- a select program in ProgramExecutor and in PipelineExecutor ----
    sx_in,          \* the program (<<>>: idle)
    sx_out,         \* per executor: whether it ran, its selected_ids and events
    \* ---- assemble_decisions (services/assembly.py) ----
    ad_in,          \* candidates, decisions, budget, drop_pinned
    ad_out,         \* the payload, with done once the call returned
    \* ---- run_llm_judge (services/judge.py) ----
    jd_in,          \* max_llm_calls, max_consecutive_failures, fallback_top_k
    jd_pc,          \* "idle" | "start" | "plan" | "decision" | "after" | "returned"
    jd_st,          \* rounds, consecutive_failures, llm_calls, the round in progress
    jd_out          \* the JudgeResult

postVars == <<max_retries, attempt, last_error, post_log, post_pc>>
asmVars == <<asm_options, asm_limits, asm_index, asm_outcome, asm_pc>>

runOutputs == <<rlm_program, rlm_events, rlm_glimpses, rlm_glimpses_meta, rlm_subcalls,
                rlm_evidence, rlm_final, rlm_final_answer, rlm_citations>>
runLog == <<snapshots, trace, calls, run_result>>
runVars == <<run_in, run_pc, rlm_round, decision_mode, decision_fallback_reason, rlm_executor,
             rlm_status, rlm_errors, rlm_meta, round_error, runOutputs, runLog>>

exVars == <<ex_in, ex_pc, ex_out, cache>>
rqVars == <<rq_in, rq_pc, rq_run_id, rq_loc, rq_resp, db_runs, db_run_events, trace_files>>

lcVars == <<lc_in, lc_pc, lc_out>>
vlVars == <<vl_in, vl_pc, vl_out>>
peVars == <<pe_in, pe_pc, pe_out>>
sxVars == <<sx_in, sx_out>>
adVars == <<ad_in, ad_out>>
jdVars == <<jd_in, jd_pc, jd_st, jd_out>>
fnVars == <<lcVars, vlVars, peVars, sxVars, adVars, jdVars>>

vars == <<postVars, asmVars, runVars, exVars, rqVars, fnVars>>

(***************************************************************************)
(* Bounds of the model.                                                    *)
(***************************************************************************)
MaxRetriesBound == 2
\* programs have at most MaxNodes steps, subcalls included
MaxNodes == 3
\* max_subcalls, max_depth and max_event_errors range over 1..MaxLimit, max_steps
\* over 1..MaxNodes
MaxLimit == 2
\* options["head_chars"] of an examine call ranges over 1..MaxHeadChars
MaxHeadChars == 2

(***************************************************************************)
(* _post_json: one urlopen attempt per loop iteration.                     *)
(* An attempt's outcome is the exception class the try block ends with     *)
(* ("none": the body was read and decoded), the HTTP code of an HTTPError, *)
(* and whether str(exc).lower() contains "timed out".                      *)
(***************************************************************************)
NoError == [exc |-> "none", code |-> 0, timed_out_text |-> FALSE]

HttpCodes == {404, 499, 500, 503}

AttemptOutcomes ==
    {NoError}
    \cup [exc : {"HTTPError"}, code : HttpCodes, timed_out_text : BOOLEAN]
    \cup [exc : {"URLError"}, code : {0}, timed_out_text : BOOLEAN]
    \cup [exc : {"TimeoutError", "ValueError", "Other"}, code : {0},
          timed_out_text : {FALSE}]

\* the classes named by the except clause of _post_json
CaughtClasses == {"HTTPError", "URLError", "TimeoutError", "ValueError"}

\* is_timeout = isinstance(exc, TimeoutError) or "timed out" in str(exc).lower()
is_timeout(out) == out.exc = "TimeoutError" \/ out.timed_out_text

\* isinstance(exc, HTTPError) and exc.code < 500
is_client_error(out) == out.exc = "HTTPError" /\ out.code < 500

\* a handler that would go on after the last index: attempt > max_retries
retries_exhausted_late(att, r) == att > r

\* attempt >= self._retry.max_retries
retries_exhausted(att, r) == att >= r

\* a handler without the break for HTTP codes below 500
handler_breaks_retry_client_error(out, att, r) ==
    \/ is_timeout(out)
    \/ retries_exhausted(att, r)

\* the except handler leaves the loop (one of its three break statements)
handler_breaks(out, att, r) ==
    \/ is_timeout(out)
    \/ is_client_error(out)
    \/ retries_exhausted(att, r)

AttemptEntry(out) == [ev |-> "attempt", out |-> out]
SleepEntry == [ev |-> "sleep", out |-> NoError]

PostInit ==
    /\ max_retries \in -1..MaxRetriesBound
    /\ attempt = 0
    /\ last_error = NoError
    /\ post_log = <<>>
    /\ post_pc = "loop"

PostIdle ==
    /\ max_retries = 0
    /\ attempt = 0
    /\ last_error = NoError
    /\ post_log = <<>>
    /\ post_pc = "idle"

\* range(max_retries + 1) is exhausted, and the statement after the loop raises
\* RuntimeError("vLLM chat.completions failed after retries: ...")
PostLoopEnd ==
    /\ post_pc = "loop"
    /\ attempt > max_retries
    /\ post_pc' = "raised"
    /\ UNCHANGED <<max_retries, attempt, last_error, post_log>>
    /\ UNCHANGED <<asmVars, runVars, exVars, rqVars, fnVars>>

\* one iteration of the loop: the try block and, on a caught exception, the handler;
\* a break is followed at once by the raise after the loop
PostAttempt ==
    /\ post_pc = "loop"
    /\ attempt <= max_retries
    /\ \E out \in AttemptOutcomes :
         IF out.exc = "none"
         THEN /\ post_log' = Append(post_log, AttemptEntry(out))
              /\ post_pc' = "returned"
              /\ UNCHANGED <<attempt, last_error>>
         ELSE IF out.exc \notin CaughtClasses
         THEN /\ post_log' = Append(post_log, AttemptEntry(out))
              /\ post_pc' = "propagated"
              /\ UNCHANGED <<attempt, last_error>>
         ELSE IF handler_breaks(out, attempt, max_retries)
         THEN /\ post_log' = Append(post_log, AttemptEntry(out))
              /\ last_error' = out
              /\ post_pc' = "raised"
              /\ UNCHANGED attempt
         ELSE /\ post_log' = post_log \o <<AttemptEntry(out), SleepEntry>>
              /\ last_error' = out
              /\ attempt' = attempt + 1
              /\ UNCHANGED post_pc
    /\ UNCHANGED max_retries
    /\ UNCHANGED <<asmVars, runVars, exVars, rqVars, fnVars>>

(***************************************************************************)
(* Programs.  A step is a record                                           *)
(*   action        the step's "action"                                     *)
(*   selected_ids  the step's "selected_ids" (select steps only)           *)
(*   subcalls      the step's "subcalls" (<<>>: the key is absent)         *)
(* and a program is a sequence of steps.                                   *)
(***************************************************************************)
Step(action, ids, subcalls) ==
    [action |-> action, selected_ids |-> ids, subcalls |-> subcalls]

\* an element of a program that has not the shape of a step:
\*   shape "int"           the element is the number 5, not an object
\*   shape "subcalls_int"  {"action": "noop", "subcalls": 5}
IllStep(shape) ==
    [action |-> "noop", selected_ids |-> <<>>, subcalls |-> <<>>, shape |-> shape]

\* isinstance(step, dict); a step that is no dict has no .get
IsDictStep(step) == ~("shape" \in DOMAIN step /\ step.shape = "int")

\* the step's "subcalls" value is truthy and not a list
SubcallsNotList(step) == "shape" \in DOMAIN step /\ step.shape = "subcalls_int"

\* the steps without their subcalls
StepHeads ==
    { Step("noop", <<>>, <<>>),
      Step("select", <<"a1">>, <<>>),
      Step("select", <<"a2", "a1">>, <<>>),
      Step("bogus", <<>>, <<>>) }

\* all programs of exactly n steps, subcalls included
RECURSIVE ProgramsOfSize(_)
ProgramsOfSize(n) ==
    IF n = 0 THEN { <<>> }
    ELSE UNION { UNION { { <<[h EXCEPT !.subcalls = sub]>> \o rest :
                             h \in StepHeads, rest \in ProgramsOfSize(n - 1 - k) } :
                         sub \in ProgramsOfSize(k) } :
                 k \in 0..(n - 1) }

Programs == UNION { ProgramsOfSize(n) : n \in 0..MaxNodes }

\* tree measures of a program, independent of any walk
RECURSIVE NodeCount(_), SubcallTotal(_), Depth(_)
NodeCount(steps) ==
    IF steps = <<>> THEN 0
    ELSE 1 + NodeCount(Head(steps).subcalls) + NodeCount(Tail(steps))
SubcallTotal(steps) ==
    IF steps = <<>> THEN 0
    ELSE Len(Head(steps).subcalls) + SubcallTotal(Head(steps).subcalls)
           + SubcallTotal(Tail(steps))
Max2(a, b) == IF a >= b THEN a ELSE b
Depth(steps) ==
    IF steps = <<>> THEN 0
    ELSE Max2(1 + Depth(Head(steps).subcalls), Depth(Tail(steps)))

(***************************************************************************)
(* json.dumps with the default separators (", " and ": ").                 *)
(***************************************************************************)
RECURSIVE JsonLenStrings(_), JsonLenSteps(_), JsonLenStep(_)
\* "a1", "a2"  (the items of a list of strings, without the brackets)
JsonLenStrings(ids) ==
    IF ids = <<>> THEN 0
    ELSE Len(Head(ids)) + 2 + (IF Len(ids) > 1 THEN 2 ELSE 0) + JsonLenStrings(Tail(ids))
JsonLenSteps(steps) ==
    IF steps = <<>> THEN 0
    ELSE JsonLenStep(Head(steps)) + (IF Len(steps) > 1 THEN 2 ELSE 0)
           + JsonLenSteps(Tail(steps))
\* {"action": "select", "selected_ids": [...], "subcalls": [...]}
JsonLenStep(step) ==
    IF ~IsDictStep(step) THEN Len("5")
    ELSE IF SubcallsNotList(step)
    THEN 2 + Len("\"action\": ") + Len(step.action) + 2 + Len(", \"subcalls\": 5")
    ELSE
    2 + Len("\"action\": ") + Len(step.action) + 2
      + (IF step.action = "select"
         THEN Len(", \"selected_ids\": ") + 2 + JsonLenStrings(step.selected_ids)
         ELSE 0)
      + (IF step.subcalls # <<>>
         THEN Len(", \"subcalls\": ") + 2 + JsonLenSteps(step.subcalls)
         ELSE 0)
JsonLenList(steps) == 2 + JsonLenSteps(steps)

(***************************************************************************)
(* options["program"] as the caller may send it:                           *)
(*   kind "none"        the key is absent or null                          *)
(*   kind "list"        a list of steps                                    *)
(*   kind "dict_steps"  {"steps": [...]}                                   *)
(*   kind "json_list"   a string holding the JSON text of a list of steps  *)
(*   kind "scalar"      the number 5                                       *)
(*   kind "bad_json"    the string "{oops", which is not JSON              *)
(*   kind "steps_scalar"  {"steps": 5}                                     *)
(***************************************************************************)
RawProgram(kind, steps) == [kind |-> kind, steps |-> steps]

\* values of options["program"] that have not the shape of a program
IllShapedPrograms ==
    { RawProgram("scalar", <<>>), RawProgram("bad_json", <<>>),
      RawProgram("steps_scalar", <<>>),
      RawProgram("list", <<IllStep("int")>>),
      RawProgram("list", <<Step("noop", <<>>, <<>>), IllStep("int")>>),
      RawProgram("dict_steps", <<IllStep("int")>>),
      RawProgram("list", <<IllStep("subcalls_int")>>),
      RawProgram("json_list", <<Step("select", <<"a1">>, <<>>), IllStep("subcalls_int")>>) }

\* options.program has not the shape of a program
IllShaped(raw) ==
    \/ raw.kind \in {"scalar", "bad_json", "steps_scalar"}
    \/ \E i \in DOMAIN raw.steps : ~IsDictStep(raw.steps[i]) \/ SubcallsNotList(raw.steps[i])

\* every program as a list; the smaller ones also wrapped and as JSON text
RawPrograms ==
    { RawProgram("none", <<>>) }
    \cup { RawProgram("list", p) : p \in Programs }
    \cup { RawProgram(k, p) : k \in {"dict_steps", "json_list"},
                              p \in UNION { ProgramsOfSize(n) : n \in 0..(MaxNodes - 1) } }
    \cup IllShapedPrograms

\* _estimate_program_chars
_estimate_program_chars(raw) ==
    CASE raw.kind = "none" -> 0
      [] raw.kind = "json_list" -> JsonLenList(raw.steps)
      [] raw.kind = "list" -> JsonLenList(raw.steps)
      [] raw.kind = "dict_steps" -> Len("{\"steps\": ") + JsonLenList(raw.steps) + 1
      [] raw.kind = "scalar" -> Len("5")
      [] raw.kind = "bad_json" -> Len("{oops")
      [] raw.kind = "steps_scalar" -> Len("{\"steps\": 5}")

\* _extract_program: the steps, or a raised ProgramParseError / JSONDecodeError
\* (iterable is FALSE when the value returned is the number under "steps")
_extract_program(raw) ==
    CASE raw.kind = "none" -> [raised |-> "none", steps |-> <<>>, iterable |-> TRUE]
      [] raw.kind \in {"list", "dict_steps", "json_list"} ->
            [raised |-> "none", steps |-> raw.steps, iterable |-> TRUE]
      [] raw.kind = "scalar" ->
            [raised |-> "ProgramParseError", steps |-> <<>>, iterable |-> TRUE]
      [] raw.kind = "bad_json" ->
            [raised |-> "JSONDecodeError", steps |-> <<>>, iterable |-> TRUE]
      [] raw.kind = "steps_scalar" ->
            [raised |-> "none", steps |-> <<>>, iterable |-> FALSE]

(***************************************************************************)
(* _check_limits: the pre-execution walk.  The result names what the walk  *)
(* raised: "none", or "limit" with the ProgramLimitError's fields.         *)
(***************************************************************************)
WalkState0 == [raised |-> "none", limit |-> "", value |-> 0, max |-> 0,
               step_count |-> 0, subcall_count |-> 0]

WalkLimitError(w, limit, value, max) ==
    [w EXCEPT !.raised = "limit", !.limit = limit, !.value = value, !.max = max]

\* a walk that never checks the depth
walk_depth_exceeded_never(depth, lim) == FALSE

\* if depth > max_depth
walk_depth_exceeded(depth, lim) == depth > lim.max_depth

RECURSIVE _walk(_, _, _, _), _walk_from(_, _, _, _)
_walk(steps, depth, lim, w) ==
    IF walk_depth_exceeded(depth, lim)
    THEN WalkLimitError(w, "max_depth", depth, lim.max_depth)
    ELSE _walk_from(steps, depth, lim, w)
_walk_from(steps, depth, lim, w) ==
    IF steps = <<>> THEN w
    ELSE LET step == Head(steps)
             w1 == [w EXCEPT !.step_count = w.step_count + 1]
         IN IF w1.step_count > lim.max_steps
            THEN WalkLimitError(w1, "max_steps", w1.step_count, lim.max_steps)
            ELSE IF ~IsDictStep(step)
            THEN [w1 EXCEPT !.raised = "AttributeError"]
            ELSE IF SubcallsNotList(step)
            THEN [w1 EXCEPT !.raised = "ProgramParseError"]
            ELSE IF step.subcalls = <<>>
            THEN _walk_from(Tail(steps), depth, lim, w1)
            ELSE LET w2 == [w1 EXCEPT !.subcall_count =
                                         w1.subcall_count + Len(step.subcalls)]
                 IN IF w2.subcall_count > lim.max_subcalls
                    THEN WalkLimitError(w2, "max_subcalls", w2.subcall_count,
                                        lim.max_subcalls)
                    ELSE LET w3 == _walk(step.subcalls, depth + 1, lim, w2)
                         IN IF w3.raised # "none" THEN w3
                            ELSE _walk_from(Tail(steps), depth, lim, w3)

\* _walk(list(program), depth=1): list() of a number raises TypeError
_check_limits(program, lim) ==
    IF ~program.iterable THEN [WalkState0 EXCEPT !.raised = "TypeError"]
    ELSE _walk(program.steps, 1, lim, WalkState0)

(***************************************************************************)
(* ProgramExecutor (services/executor.py).                                 *)
(***************************************************************************)
ExecState0 == [selected_ids |-> <<>>, events |-> <<>>, errors |-> <<>>,
               stopped |-> FALSE, error_count |-> 0,
               step_counter |-> 0, subcall_counter |-> 0]

\* an event that loses its step number
ExecutionEvent_unnumbered(step, action, status, error) ==
    [step |-> 0, action |-> action, status |-> status, error |-> error]

\* ExecutionEvent.to_dict(); error = "" stands for no "error" key
ExecutionEvent(step, action, status, error) ==
    [step |-> step, action |-> action, status |-> status, error |-> error]

LimitExceeded(limit, value, max) ==
    [type |-> "limit_exceeded", limit |-> limit, value |-> value, max |-> max]

\* _record_error
_record_error(st, step_index, action, message) ==
    [st EXCEPT !.error_count = st.error_count + 1,
               !.events = Append(st.events,
                                 ExecutionEvent(step_index, action, "error", message)),
               !.errors = Append(st.errors,
                                 [type |-> "event_error", step |-> step_index,
                                  action |-> action, message |-> message])]

\* an item of selected_ids that is no string (the number 5)
NonStringId == "<5>"

\* a validation that takes every non-empty item for an id
InvalidId_empty_only(item) == item = ""

\* not isinstance(item, str) or not item
InvalidId(item) == item = "" \/ item = NonStringId

\* the step's "selected_ids" value is not a list: {"action": "select",
\* "selected_ids": "a1"} is a step of shape "ids_not_list"
IdsNotList(step) == "shape" \in DOMAIN step /\ step.shape = "ids_not_list"

\* _execute_step: the state after the step, or the message of the ValueError
_execute_step(step_index, action, payload, st) ==
    IF action = "select"
    THEN IF IdsNotList(payload)
         THEN [raised |-> TRUE, message |-> "select requires selected_ids list",
               st |-> st]
         ELSE IF \E i \in DOMAIN payload.selected_ids : InvalidId(payload.selected_ids[i])
         THEN [raised |-> TRUE, message |-> "select requires non-empty string ids",
               st |-> st]
         ELSE [raised |-> FALSE, message |-> "",
               st |-> [st EXCEPT !.selected_ids = st.selected_ids \o payload.selected_ids,
                                 !.events = Append(st.events,
                                     ExecutionEvent(step_index, action, "ok", ""))]]
    ELSE IF action = "noop"
    THEN [raised |-> FALSE, message |-> "",
          st |-> [st EXCEPT !.events = Append(st.events,
                                ExecutionEvent(step_index, action, "ok", ""))]]
    ELSE [raised |-> TRUE, message |-> "unsupported action: " \o action, st |-> st]

\* the try/except around _execute_step in _visit_steps
StepOutcome(step_index, step, st) ==
    LET r == _execute_step(step_index, step.action, step, st)
    IN IF r.raised THEN _record_error(st, step_index, step.action, r.message)
       ELSE r.st

ExecStop(st, err) ==
    [ret |-> FALSE, st |-> [st EXCEPT !.errors = Append(st.errors, err),
                                      !.stopped = TRUE]]

\* a threshold that already stops at max_event_errors failed steps
error_threshold_passed_early(error_count, lim) == error_count >= lim.max_event_errors

\* if error_count > self._limits.max_event_errors
error_threshold_passed(error_count, lim) == error_count > lim.max_event_errors

RECURSIVE _visit_steps(_, _, _, _), _visit_from(_, _, _, _)
_visit_steps(steps, depth, lim, st) ==
    IF depth > lim.max_depth
    THEN ExecStop(st, LimitExceeded("max_depth", depth, lim.max_depth))
    ELSE _visit_from(steps, depth, lim, st)
_visit_from(steps, depth, lim, st) ==
    IF steps = <<>> THEN [ret |-> TRUE, st |-> st]
    ELSE LET step == Head(steps)
             c == st.step_counter + 1
             st1 == [st EXCEPT !.step_counter = c]
         IN IF c > lim.max_steps
            THEN ExecStop(st1, LimitExceeded("max_steps", c, lim.max_steps))
            ELSE LET st2 == StepOutcome(c, step, st1)
                 IN IF error_threshold_passed(st2.error_count, lim)
                    THEN ExecStop(st2, [type |-> "event_error_threshold",
                                        limit |-> lim.max_event_errors,
                                        value |-> st2.error_count])
                    ELSE IF step.subcalls = <<>>
                    THEN _visit_from(Tail(steps), depth, lim, st2)
                    ELSE LET sc == st2.subcall_counter + Len(step.subcalls)
                             st3 == [st2 EXCEPT !.subcall_counter = sc]
                         IN IF sc > lim.max_subcalls
                            THEN ExecStop(st3, LimitExceeded("max_subcalls", sc,
                                                             lim.max_subcalls))
                            ELSE LET r == _visit_steps(step.subcalls, depth + 1, lim, st3)
                                 IN IF ~r.ret THEN r
                                    ELSE _visit_from(Tail(steps), depth, lim, r.st)

\* ProgramExecutor.execute
execute(program, lim) == _visit_steps(program, 1, lim, ExecState0).st

(***************************************************************************)
(* deterministic_fallback: sorted(..., reverse=True)[:top_k] on the key    *)
(* (pinned, weight, hit_count, base_score).  Python's sort is stable, also *)
(* with reverse=True: candidates with equal keys keep their index order.   *)
(***************************************************************************)
Candidate(id, pinned, weight, hit_count, base_score) ==
    [artifact_id |-> id, pinned |-> pinned, weight |-> weight,
     hit_count |-> hit_count, base_score |-> base_score]

BoolRank(b) == IF b THEN 1 ELSE 0

\* key(a) > key(b), tuples compared lexicographically
KeyGreater(a, b) ==
    \/ BoolRank(a.pinned) > BoolRank(b.pinned)
    \/ /\ a.pinned = b.pinned
       /\ \/ a.weight > b.weight
          \/ /\ a.weight = b.weight
             /\ \/ a.hit_count > b.hit_count
                \/ /\ a.hit_count = b.hit_count
                   /\ a.base_score > b.base_score

\* insert c after every element whose key is not smaller than c's
RECURSIVE InsertDesc(_, _)
InsertDesc(sorted, c) ==
    IF sorted = <<>> THEN <<c>>
    ELSE IF KeyGreater(c, Head(sorted)) THEN <<c>> \o sorted
    ELSE <<Head(sorted)>> \o InsertDesc(Tail(sorted), c)

RECURSIVE SortDesc(_, _)
SortDesc(done, rest) ==
    IF rest = <<>> THEN done
    ELSE SortDesc(InsertDesc(done, Head(rest)), Tail(rest))

Take(seq, k) == SubSeq(seq, 1, IF k < Len(seq) THEN k ELSE Len(seq))

_fallback_candidates(candidates, top_k) == Take(SortDesc(<<>>, candidates), top_k)

deterministic_fallback(candidates, top_k) ==
    LET selected == _fallback_candidates(candidates, top_k)
    IN [mode |-> "deterministic_fallback",
        selected_ids |-> [i \in DOMAIN selected |-> selected[i].artifact_id],
        selected |-> [i \in DOMAIN selected |->
                        [artifact_id |-> selected[i].artifact_id,
                         pinned |-> selected[i].pinned,
                         weight |-> selected[i].weight,
                         hit_count |-> selected[i].hit_count]]]

\* _clamp_int for an int value
_clamp_int(value, default, lo, hi) ==
    IF value < lo THEN lo ELSE IF value > hi THEN hi ELSE value

\* the candidate lists of the model
CandidateLists ==
    { <<Candidate("a1", FALSE, 1, 0, 1), Candidate("a2", TRUE, 1, 1, 6),
        Candidate("a3", FALSE, 1, 0, 1), Candidate("a4", FALSE, 2, 0, 2)>> }

\* options["fallback_top_k"] as sent
FallbackTopKValues == {0, 2}

\* assembled_context = {}
EmptyContext == [mode |-> "", selected_ids |-> <<>>, selected |-> <<>>]

ProgramContext(ids) == [mode |-> "program", selected_ids |-> ids, selected |-> <<>>]

\* no de-duplication at all
Dedup_keep_all(acc, ids) == acc \o ids

\* the de-duplication loop at the end of run_program
RECURSIVE Dedup(_, _)
Dedup(acc, ids) ==
    IF ids = <<>> THEN acc
    ELSE Dedup(IF \E i \in DOMAIN acc : acc[i] = Head(ids) THEN acc
               ELSE Append(acc, Head(ids)),
               Tail(ids))

RunnerOutcome(status, context, errors, events, degraded) ==
    [status |-> status, assembled_context |-> context, errors |-> errors,
     events |-> events, degraded |-> degraded]

NoOutcome == RunnerOutcome("", EmptyContext, <<>>, <<>>, FALSE)

\* except (ProgramParseError, json.JSONDecodeError, TypeError, ValueError)
ParseErrorClasses == {"ProgramParseError", "JSONDecodeError", "TypeError", "ValueError"}

\* no RunnerOutcome: the exception leaves run_program
Escaped(exc) == RunnerOutcome("raised", EmptyContext, <<[type |-> exc]>>, <<>>, FALSE)

\* run_program(index, options, limits=limits)
run_program(candidates, options, lim) ==
    LET raw_program == options.program
        fallback_top_k == _clamp_int(options.fallback_top_k, 5, 1, 200)
        program_chars == _estimate_program_chars(raw_program)
        extracted == _extract_program(raw_program)
        walk == _check_limits(extracted, lim)
        execution == execute(extracted.steps, lim)
    IN IF program_chars > lim.max_program_chars
       THEN RunnerOutcome("stopped", EmptyContext,
                          <<LimitExceeded("max_program_chars", program_chars,
                                          lim.max_program_chars)>>,
                          <<>>, FALSE)
       ELSE IF extracted.raised # "none"
       THEN RunnerOutcome("degraded", deterministic_fallback(candidates, fallback_top_k),
                          <<[type |-> "program_parse_failed"]>>, <<>>, TRUE)
       ELSE IF walk.raised = "limit"
       THEN RunnerOutcome("stopped", EmptyContext,
                          <<LimitExceeded(walk.limit, walk.value, walk.max)>>,
                          <<>>, FALSE)
       ELSE IF walk.raised \in ParseErrorClasses
       THEN RunnerOutcome("degraded", deterministic_fallback(candidates, fallback_top_k),
                          <<[type |-> "program_parse_failed"]>>, <<>>, TRUE)
       ELSE IF walk.raised # "none"
       THEN Escaped(walk.raised)
       ELSE IF execution.stopped /\ execution.errors # <<>>
       THEN IF \E i \in DOMAIN execution.errors :
                   execution.errors[i].type = "event_error_threshold"
            THEN RunnerOutcome("degraded",
                               deterministic_fallback(candidates, fallback_top_k),
                               execution.errors, execution.events, TRUE)
            ELSE RunnerOutcome("stopped", EmptyContext, execution.errors,
                               execution.events, FALSE)
       ELSE RunnerOutcome("ok", ProgramContext(Dedup(<<>>, execution.selected_ids)),
                          execution.errors, execution.events, FALSE)

\* the limits of the model; every limit is positive (build_limits_snapshot)
DefaultMaxProgramChars == 20000

LimitRecords ==
    [max_steps : 1..MaxNodes, max_subcalls : 1..MaxLimit, max_depth : 1..MaxLimit,
     max_event_errors : 1..MaxLimit, max_program_chars : {60, DefaultMaxProgramChars}]

AsmInit ==
    /\ asm_options \in [program : RawPrograms, fallback_top_k : FallbackTopKValues]
    /\ asm_limits \in LimitRecords
    /\ asm_index \in CandidateLists
    /\ asm_outcome = NoOutcome
    /\ asm_pc = "call"

AsmIdle ==
    /\ asm_options = [program |-> RawProgram("none", <<>>), fallback_top_k |-> 0]
    /\ asm_limits = [max_steps |-> 1, max_subcalls |-> 1, max_depth |-> 1,
                     max_event_errors |-> 1, max_program_chars |-> DefaultMaxProgramChars]
    /\ asm_index = <<>>
    /\ asm_outcome = NoOutcome
    /\ asm_pc = "idle"

\* the call of run_program
AsmRunProgram ==
    /\ asm_pc = "call"
    /\ asm_outcome' = run_program(asm_index, asm_options, asm_limits)
    /\ asm_pc' = IF asm_outcome'.status = "raised" THEN "raised" ELSE "returned"
    /\ UNCHANGED <<asm_options, asm_limits, asm_index>>
    /\ UNCHANGED <<postVars, runVars, exVars, rqVars, fnVars>>

(***************************************************************************)
(* PipelineExecutor (services/pipeline_executor.py).                       *)
(* A pipeline step is a record                                             *)
(*   action, selected_ids, subcalls   as for the assembly steps            *)
(*   artifact_id, n                   of a glimpse step (mode head)        *)
(***************************************************************************)
PipelineMaxSteps == 32
PipelineMaxEventErrors == 3
MaxGlimpseChars == 2000

\* Python's None where a string is expected
NoneStr == "<None>"

PStep(action, ids, artifact_id, n, subcalls) ==
    [action |-> action, selected_ids |-> ids, artifact_id |-> artifact_id,
     n |-> n, subcalls |-> subcalls]

\* text[:k] for any int k
PySliceTo(text, k) ==
    IF k >= 0
    THEN SubSeq(text, 1, IF k < Len(text) THEN k ELSE Len(text))
    ELSE SubSeq(text, 1, IF Len(text) + k > 0 THEN Len(text) + k ELSE 0)

Min2(a, b) == IF a <= b THEN a ELSE b

\* _sha256: an injective image of the text
_sha256(text) == <<"sha256", text>>

\* _extract_head
_extract_head(text, n) ==
    LET excerpt == PySliceTo(text, n)
    IN [excerpt |-> excerpt, start |-> 0, end |-> Len(excerpt)]

\* the value of a numeric key of a step (n, max_hits): an int, a non-numeric string, or no key
IntN(v) == [kind |-> "int", v |-> v]
TextN == [kind |-> "text", v |-> 0]
MissingN == [kind |-> "missing", v |-> 0]

\* _safe_int
_safe_int(value, default) == IF value.kind = "int" THEN value.v ELSE default

MaxGrepHits == 5
GrepSeparator == "\n...\n"

\* text[a:b] for a, b >= 0
PySlice(text, a, b) == SubSeq(text, a + 1, Min2(b, Len(text)))

\* _extract_range
_extract_range(text, start, end) ==
    LET s1 == IF start < 0 THEN 0 ELSE start
        e1 == IF end <= 0 \/ end > Len(text) THEN Len(text) ELSE end
        s2 == IF e1 < s1 THEN e1 ELSE s1
        e2 == IF e1 < s1 THEN s1 ELSE e1
    IN [excerpt |-> PySlice(text, s2, e2), start |-> s2, end |-> e2]

\* text.find(pattern, cursor) for a non-empty pattern: the first index from
\* cursor on where the pattern stands, -1 if none
PyFind(text, pattern, cursor) ==
    LET hits == { i \in cursor..(Len(text) - Len(pattern)) :
                     SubSeq(text, i + 1, i + Len(pattern)) = pattern }
    IN IF hits = {} THEN 0 - 1
       ELSE CHOOSE i \in hits : \A j \in hits : i <= j

\* the while loop of _extract_grep
RECURSIVE GrepSpans(_, _, _, _, _, _)
GrepSpans(text, pattern, window, max_hits, cursor, spans) ==
    IF ~(Len(spans) < max_hits) THEN spans
    ELSE LET idx == PyFind(text, pattern, cursor)
         IN IF idx < 0 THEN spans
            ELSE GrepSpans(text, pattern, window, max_hits, idx + Len(pattern),
                           Append(spans,
                                  [start |-> Max2(0, idx - window),
                                   end |-> Min2(Len(text),
                                                idx + Len(pattern) + window)]))

\* "\n...\n".join(excerpts)
RECURSIVE JoinExcerpts(_, _)
JoinExcerpts(text, spans) ==
    IF spans = <<>> THEN ""
    ELSE IF Len(spans) = 1 THEN PySlice(text, spans[1].start, spans[1].end)
    ELSE PySlice(text, spans[1].start, spans[1].end) \o GrepSeparator
         \o JoinExcerpts(text, Tail(spans))

\* _extract_grep
_extract_grep(text, pattern, window, max_hits) ==
    IF pattern = "" THEN [excerpt |-> "", spans |-> <<>>]
    ELSE LET spans == GrepSpans(text, pattern, window, max_hits, 0, <<>>)
         IN [excerpt |-> JoinExcerpts(text, spans), spans |-> spans]

\* a glimpse step with "mode": "range"
RangeStep(artifact_id, start, end) ==
    [action |-> "glimpse", selected_ids |-> <<>>, artifact_id |-> artifact_id, n |-> 0,
     subcalls |-> <<>>, mode |-> "range", start |-> start, end |-> end]

\* a glimpse step with "mode": "grep"
GrepStep(artifact_id, pattern, window, max_hits) ==
    [action |-> "glimpse", selected_ids |-> <<>>, artifact_id |-> artifact_id, n |-> 0,
     subcalls |-> <<>>, mode |-> "grep", pattern |-> pattern, window |-> window,
     max_hits |-> max_hits]

\* str(step.get("mode", "head")).lower()
ModeOf(step) == IF "mode" \in DOMAIN step THEN step.mode ELSE "head"

\* the excerpt and the span of a glimpse step on a text
GlimpseExcerpt(step, text) ==
    CASE ModeOf(step) = "range" ->
           LET r == _extract_range(text, step.start, step.end)
           IN [excerpt |-> r.excerpt, mode |-> "range",
               span |-> [start |-> r.start, end |-> r.end]]
      [] ModeOf(step) = "grep" ->
           LET g == _extract_grep(text, step.pattern, step.window,
                                  _safe_int(step.max_hits, MaxGrepHits))
           IN [excerpt |-> g.excerpt, mode |-> "grep", span |-> g.spans]
      [] OTHER ->
           LET n == IF step.n # 0 THEN step.n ELSE MaxGlimpseChars
               head == _extract_head(text, Min2(n, MaxGlimpseChars))
           IN [excerpt |-> head.excerpt, mode |-> "head",
               span |-> [start |-> head.start, end |-> head.end]]

\* PipelineExecutor._extract_steps, for a program value [kind, steps]
_extract_steps(program) ==
    CASE program.kind = "list" -> program.steps
      [] program.kind = "dict_steps" -> program.steps
      [] program.kind = "empty" -> <<PStep("noop", <<>>, "", 0, <<>>)>>
      [] OTHER -> <<>>

\* position of the first candidate with this artifact_id, 0 if none
RECURSIVE CandidateRank(_, _, _)
CandidateRank(candidates, id, i) ==
    IF i > Len(candidates) THEN 0
    ELSE IF candidates[i].artifact_id = id THEN i
    ELSE CandidateRank(candidates, id, i + 1)

\* the select branch: merged = existing ids, then the new ones not yet in it
RECURSIVE MergeIds(_, _)
MergeIds(merged, ids) ==
    IF ids = <<>> THEN merged
    ELSE MergeIds(IF \E i \in DOMAIN merged : merged[i] = Head(ids) THEN merged
                  ELSE Append(merged, Head(ids)),
                  Tail(ids))

PipeState0 == [events |-> <<>>, glimpses |-> <<>>, subcalls |-> <<>>,
               selected_ids |-> <<>>, status |-> "ok", error_count |-> 0,
               stopped |-> FALSE, mode |-> "pipeline_executor"]

PipeStepError_clears_selection(st, step_index, action, message) ==
    [st EXCEPT !.error_count = st.error_count + 1,
               !.status = "error",
               !.selected_ids = <<>>,
               !.events = Append(st.events,
                                 ExecutionEvent(step_index, action, "error", message))]

PipeStepError(st, step_index, action, message) ==
    [st EXCEPT !.error_count = st.error_count + 1,
               !.status = "error",
               !.events = Append(st.events,
                                 ExecutionEvent(step_index, action, "error", message))]

PipeStepOk(st, step_index, action) ==
    [st EXCEPT !.events = Append(st.events, ExecutionEvent(step_index, action, "ok", ""))]

\* the text of an artifact: repo.get_artifact_text, else the candidate's preview
GlimpseText(store, candidates, artifact_id) ==
    LET rank == CandidateRank(candidates, artifact_id, 1)
        text == IF artifact_id \in DOMAIN store THEN store[artifact_id] ELSE ""
    IN IF text # "" THEN text
       ELSE IF rank > 0 THEN candidates[rank].content_preview
       ELSE ""

\* the body of the for loop of PipelineExecutor.execute for one step
PipeStep(st, step_index, step, store, candidates) ==
    LET action == step.action
    IN CASE action = "noop" -> PipeStepOk(st, step_index, action)
         [] action = "select" ->
              IF IdsNotList(step)
              THEN PipeStepError(st, step_index, action,
                                 "select requires selected_ids list")
              ELSE IF \E i \in DOMAIN step.selected_ids : InvalidId(step.selected_ids[i])
              THEN PipeStepError(st, step_index, action,
                                 "select requires non-empty string ids")
              ELSE PipeStepOk([st EXCEPT !.selected_ids =
                                            MergeIds(st.selected_ids, step.selected_ids)],
                              step_index, action)
         [] action = "glimpse" ->
              IF step.artifact_id = ""
              THEN PipeStepError(st, step_index, action, "glimpse requires artifact_id")
              ELSE LET text == GlimpseText(store, candidates, step.artifact_id)
                       head == GlimpseExcerpt(step, text)
                       rank == CandidateRank(candidates, step.artifact_id, 1)
                   IN IF text = ""
                      THEN PipeStepError(st, step_index, action,
                               "glimpse text not found for artifact_id=" \o step.artifact_id)
                      ELSE IF head.excerpt = ""
                      THEN PipeStepError(st, step_index, action,
                                         "glimpse extracted empty text")
                      ELSE PipeStepOk(
                             [st EXCEPT !.glimpses = Append(st.glimpses,
                                 [artifact_id |-> step.artifact_id,
                                  mode |-> head.mode,
                                  text |-> head.excerpt,
                                  span |-> head.span,
                                  hash |-> _sha256(head.excerpt),
                                  glimpse_meta |->
                                      [step |-> step_index,
                                       source |-> "pipeline_executor",
                                       artifact_id |-> step.artifact_id,
                                       rank |-> rank]])],
                             step_index, action)
         [] action = "repl" -> PipeStepError(st, step_index, action, "repl_env_unavailable")
         [] OTHER -> PipeStepError(st, step_index, action,
                                   "unsupported action: " \o action)

\* for step_index, step in enumerate(steps, start=1)
RECURSIVE PipeLoop(_, _, _, _, _)
RECURSIVE PipeAfterStep(_, _, _, _, _, _)
PipeLoop(st, step_index, steps, store, candidates) ==
    IF step_index > Len(steps) THEN st
    ELSE IF step_index > PipelineMaxSteps
    THEN [st EXCEPT !.events = Append(st.events,
                        ExecutionEvent(step_index, "limit", "error", "max_steps exceeded: 32")),
                    !.status = "error", !.stopped = TRUE]
    ELSE PipeAfterStep(PipeStep(st, step_index, steps[step_index], store, candidates),
                       st.error_count, step_index, steps, store, candidates)

\* the end of the loop body: stop once a failed step took the error count
\* over max_event_errors
PipeAfterStep(st1, errors_before, step_index, steps, store, candidates) ==
    IF st1.error_count > errors_before /\ st1.error_count > PipelineMaxEventErrors
    THEN [st1 EXCEPT !.stopped = TRUE]
    ELSE PipeLoop(st1, step_index + 1, steps, store, candidates)

\* PipelineExecutor.execute: the returned dict (events, glimpses, subcalls,
\* selected_ids, status, mode)
PipelineExecute(program, store, candidates) ==
    PipeLoop(PipeState0, 1, _extract_steps(program), store, candidates)

(***************************************************************************)
(* run_rlm (services/run_pipeline.py): the root-LM backends, the mock      *)
(* executor and the values the orchestrator handles.                       *)
(***************************************************************************)
\* a JSON list-or-scalar value as options["citations"] / final["citations"]
AbsentList == [kind |-> "absent", items |-> <<>>]
ListOf(items) == [kind |-> "list", items |-> items]
ScalarValue == [kind |-> "scalar", items |-> <<>>]

\* list(value or []): a truthy non-iterable raises TypeError
ListOrEmpty(value) ==
    IF value.kind = "scalar" THEN [raised |-> TRUE, items |-> <<>>]
    ELSE [raised |-> FALSE, items |-> value.items]

\* final = {} before the Decision round
EmptyFinal == [kind |-> "empty", answer |-> NoneStr, citations |-> AbsentList,
               evidence_count |-> 0, subcall_count |-> 0]

FinalDict(answer, citations, evidence_count, subcall_count) ==
    [kind |-> "dict", answer |-> answer, citations |-> citations,
     evidence_count |-> evidence_count, subcall_count |-> subcall_count]

\* a final that is not a mapping (the model returned {"final": "some text"})
FinalNotDict == [kind |-> "str", answer |-> NoneStr, citations |-> AbsentList,
                 evidence_count |-> 0, subcall_count |-> 0]

\* program = {} before the Plan round
EmptyProgram == [kind |-> "empty", steps |-> <<>>]

\* _build_evidence
_build_evidence(ev, gl, sc) == <<[events |-> ev], [glimpses |-> gl], [subcalls |-> sc]>>

\* a default plan that glimpses the first candidate without selecting it
MockGenerateProgram_glimpse_only(candidates, opt_program) ==
    IF opt_program.kind # "none" THEN opt_program
    ELSE IF candidates = <<>> THEN [kind |-> "dict_steps", steps |-> <<>>]
    ELSE [kind |-> "dict_steps",
          steps |-> << PStep("glimpse", <<>>, candidates[1].artifact_id, 800, <<>>) >>]

\* MockRootLM.generate_program: options["program"] if given, else the default plan
MockGenerateProgram(candidates, opt_program) ==
    IF opt_program.kind # "none" THEN opt_program
    ELSE IF candidates = <<>> THEN [kind |-> "dict_steps", steps |-> <<>>]
    ELSE [kind |-> "dict_steps",
          steps |-> << PStep("select", <<candidates[1].artifact_id>>, "", 0, <<>>),
                       PStep("glimpse", <<>>, candidates[1].artifact_id, 800, <<>>) >>]

\* MockRootLM.generate_final: the result, or raised (list() of a scalar citations)
MockGenerateFinal(query, ev, sc, opts) ==
    LET answer == IF opts.final_answer # NoneStr THEN opts.final_answer
                  ELSE "Mock answer for: " \o query
        cites == ListOrEmpty(opts.citations)
    IN IF cites.raised
       THEN [raised |-> TRUE, message |-> "'int' object is not iterable",
             final |-> EmptyFinal, mode |-> "mock", parsed |-> TRUE]
       ELSE [raised |-> FALSE, message |-> "",
             final |-> FinalDict(answer, ListOf(cites.items), Len(ev), Len(sc)),
             mode |-> "mock", parsed |-> TRUE]

\* what VllmRootLM.generate_final can come back with: a parsed final, a parsed
\* final without answer, unparseable text (the raw text becomes the answer), a
\* final that is not a mapping, a final whose citations are a scalar, or an
\* exception (adapter timeout, HTTP failure, invalid JSON inside braces, ...)
VllmFinalOutcomes ==
    { [raised |-> FALSE, message |-> "", mode |-> "vllm", parsed |-> TRUE,
       final |-> FinalDict("A", ListOf(<<"a1">>), 0, 0)],
      [raised |-> FALSE, message |-> "", mode |-> "vllm", parsed |-> TRUE,
       final |-> FinalDict(NoneStr, AbsentList, 0, 0)],
      [raised |-> FALSE, message |-> "", mode |-> "vllm", parsed |-> FALSE,
       final |-> FinalDict("raw text", ListOf(<<>>), 0, 0)],
      [raised |-> FALSE, message |-> "", mode |-> "vllm", parsed |-> TRUE,
       final |-> FinalNotDict],
      [raised |-> FALSE, message |-> "", mode |-> "vllm", parsed |-> TRUE,
       final |-> FinalDict("A", ScalarValue, 0, 0)],
      [raised |-> TRUE, message |-> "simulated timeout", mode |-> "vllm",
       parsed |-> FALSE, final |-> EmptyFinal],
      [raised |-> TRUE, message |-> "vLLM chat.completions failed after retries",
       mode |-> "vllm", parsed |-> FALSE, final |-> EmptyFinal] }

\* the payload options give the MockExecutor (events, glimpses, subcalls)
MockPayloadEvents == <<ExecutionEvent(1, "noop", "ok", "")>>
MockPayloadGlimpses ==
    <<[artifact_id |-> "a1", mode |-> "head", text |-> "Fu",
       span |-> [start |-> 0, end |-> 2], hash |-> _sha256("Fu"),
       glimpse_meta |-> [step |-> 1, source |-> "options", artifact_id |-> "a1",
                         rank |-> 0]]>>
MockPayloadSubcalls == <<[id |-> "s1"]>>

\* MockExecutor.execute: program.get("steps") raises on a program that is a list
MockExecute(program, opts) ==
    IF opts.vars_scalar
    THEN [raised |-> TRUE, message |-> "cannot convert dictionary update sequence"]
    ELSE IF program.kind = "list"
    THEN [raised |-> TRUE, message |-> "'list' object has no attribute 'get'"]
    ELSE [raised |-> FALSE, message |-> "",
          events |-> IF opts.mock_payload THEN MockPayloadEvents ELSE <<>>,
          glimpses |-> IF opts.mock_payload THEN MockPayloadGlimpses ELSE <<>>,
          subcalls |-> IF opts.mock_payload THEN MockPayloadSubcalls ELSE <<>>,
          selected_ids |-> <<>>,
          status |-> IF opts.executor_status # NoneStr THEN opts.executor_status ELSE "ok",
          mode |-> "mock"]

\* an executor result that came back without an exception
Returned(r) ==
    [raised |-> FALSE, message |-> "", events |-> r.events, glimpses |-> r.glimpses,
     subcalls |-> r.subcalls, selected_ids |-> r.selected_ids, status |-> r.status,
     mode |-> r.mode]

\* PipelineExecutor.execute as run_rlm calls it: dict(options.get("vars") or {})
\* raises on a scalar
RealExecute(program, store, candidates, opts) ==
    IF opts.vars_scalar
    THEN [raised |-> TRUE, message |-> "'int' object is not iterable"]
    ELSE Returned(PipelineExecute(program, store, candidates))

\* glimpses_meta: options["glimpses_meta"] if non-empty, else every glimpse's
\* glimpse_meta
GlimpsesMetaOf(gl) == [i \in DOMAIN gl |-> gl[i].glimpse_meta]

\* meta["roundN"]; "" stands for an absent key; selected_ids is
\* meta["round2"]["vars"]["selected_ids"]
NoRound == [stage |-> "", mode |-> "", status |-> "", parsed |-> TRUE,
            fallback_reason |-> "", fallback_from |-> "", selected_ids |-> <<>>]
RoundMeta(stage, mode, status, parsed, reason, from) ==
    [stage |-> stage, mode |-> mode, status |-> status, parsed |-> parsed,
     fallback_reason |-> reason, fallback_from |-> from, selected_ids |-> <<>>]

\* one call of a backend or of the executor, and whether it raised
Call(op, raised) == [op |-> op, raised |-> raised]

ErrorEntry(stage, message) == [stage |-> stage, error |-> message]

StartsWith(s, prefix) == Len(s) >= Len(prefix) /\ SubSeq(s, 1, Len(prefix)) = prefix

(***************************************************************************)
(* The inputs of one run_rlm call.                                         *)
(***************************************************************************)
RunCandidate == [artifact_id |-> "a1", content_preview |-> "preview"]

\* options["program"]
RunProgramOptions ==
    { [kind |-> "none", steps |-> <<>>],
      [kind |-> "dict_steps", steps |-> <<PStep("noop", <<>>, "", 0, <<>>)>>],
      [kind |-> "dict_steps", steps |-> <<PStep("bogus", <<>>, "", 0, <<>>)>>],
      [kind |-> "dict_steps",
       steps |-> << PStep("select", <<"a1", "a2">>, "", 0,
                          <<PStep("noop", <<>>, "", 0, <<>>)>>),
                    PStep("glimpse", <<>>, "a1", 4, <<>>),
                    PStep("repl", <<>>, "", 0, <<>>) >>],
      [kind |-> "dict_steps",
       steps |-> << PStep("select", <<"a2", "a1">>, "", 0, <<>>),
                    PStep("select", <<"a1", "a3", "a1">>, "", 0, <<>>),
                    PStep("select", <<"a2">>, "", 0, <<>>) >>],
      [kind |-> "list", steps |-> <<PStep("noop", <<>>, "", 0, <<>>)>>] }

\* options without a "limits" key
NoLimits == [max_steps |-> 0, max_event_errors |-> 0]

RunInputs ==
    { in \in
        [ query : {"what is this?"},
          \* options["rootlm_backend"] or settings.rlm_rootlm_backend
          rootlm_backend : {"mock", "vllm"},
          \* what _resolve_decision_vllm_config finds missing ("" : nothing)
          vllm_missing : {"", "VLLM_BASE_URL", "VLLM_MODEL"},
          \* the rootlm argument: None, or a client whose generate_program raises
          rootlm_arg : {"none", "raising"},
          \* options["policy"] is a scalar: dict(...) raises
          policy_scalar : BOOLEAN,
          program : RunProgramOptions,
          \* options["limits"]: it goes to generate_program only (lines 532-533);
          \* _select_executor builds the executor without it (line 295)
          limits : {NoLimits, [max_steps |-> 1, max_event_errors |-> 1]},
          executor_backend : {"mock", "real"},
          \* the module-level import of PipelineExecutor succeeded
          pipeline_loaded : BOOLEAN,
          vars_scalar : BOOLEAN,
          \* options["glimpses_meta"] is a truthy scalar: list(...) raises
          glimpses_meta_scalar : BOOLEAN,
          executor_status : {NoneStr, "error", "degraded"},
          mock_payload : BOOLEAN,
          citations : {AbsentList, ListOf(<<"c1">>), ScalarValue},
          final_answer : {NoneStr, "override"},
          candidates : {<<>>, <<RunCandidate>>},
          \* the artifact store: id -> content ("" : no row or empty content)
          store : {[a1 |-> "Full content"], [a1 |-> ""]} ] :
        \* inputs that no branch reads are pinned to one value
        /\ in.rootlm_backend = "mock" => in.vllm_missing = ""
        /\ in.executor_backend = "mock" => in.pipeline_loaded
        /\ (in.executor_backend = "real" /\ in.pipeline_loaded) =>
               (in.executor_status = NoneStr /\ ~in.mock_payload)
        /\ in.policy_scalar => in.rootlm_arg = "none"
        \* glimpses_meta is read after the executor returned, and the Decision
        \* round does not follow a scalar
        /\ in.glimpses_meta_scalar =>
               (~in.policy_scalar /\ in.rootlm_arg = "none" /\ ~in.vars_scalar
                  /\ in.rootlm_backend = "mock" /\ in.citations = AbsentList
                  /\ in.final_answer = NoneStr /\ in.limits = NoLimits)
        /\ in.limits # NoLimits =>
               (in.executor_backend = "real" /\ in.pipeline_loaded
                  /\ in.rootlm_backend = "mock") }

(***************************************************************************)
(* run_rlm: the orchestrator, one action per block of the function.        *)
(***************************************************************************)
RunIdleInput ==
    [query |-> "", rootlm_backend |-> "mock", vllm_missing |-> "",
     rootlm_arg |-> "none", policy_scalar |-> FALSE,
     program |-> [kind |-> "none", steps |-> <<>>], limits |-> NoLimits,
     executor_backend |-> "mock", pipeline_loaded |-> TRUE, vars_scalar |-> FALSE,
     glimpses_meta_scalar |-> FALSE,
     executor_status |-> NoneStr, mock_payload |-> FALSE, citations |-> AbsentList,
     final_answer |-> NoneStr, candidates |-> <<>>, store |-> [a1 |-> ""]]

NoMeta == [executor_backend |-> "", round1 |-> NoRound, round2 |-> NoRound,
           round3 |-> NoRound]

NoResult == [returned |-> FALSE, status |-> "", final |-> EmptyFinal,
             program |-> EmptyProgram, glimpses |-> <<>>, subcalls |-> <<>>,
             final_answer |-> NoneStr, citations |-> <<>>]

RunLocalsInit ==
    /\ decision_mode = "mock"
    /\ decision_fallback_reason = ""
    /\ rlm_executor = ""
    /\ rlm_status = "ok"
    /\ rlm_errors = <<>>
    /\ rlm_meta = NoMeta
    /\ rlm_program = EmptyProgram
    /\ rlm_events = <<>>
    /\ rlm_glimpses = <<>>
    /\ rlm_glimpses_meta = <<>>
    /\ rlm_subcalls = <<>>
    /\ rlm_evidence = _build_evidence(<<>>, <<>>, <<>>)
    /\ rlm_final = EmptyFinal
    /\ rlm_final_answer = NoneStr
    /\ rlm_citations = <<>>
    /\ rlm_round = 0
    /\ round_error = ""
    /\ snapshots = <<>>
    /\ trace = <<>>
    /\ calls = <<>>
    /\ run_result = NoResult

RunInit ==
    /\ run_in \in RunInputs
    /\ run_pc = "setup"
    /\ RunLocalsInit

RunIdle ==
    /\ run_in = RunIdleInput
    /\ run_pc = "idle"
    /\ RunLocalsInit

\* _select_executor: the executor, the error it appends, meta["executor_backend"]
_select_executor(in) ==
    IF in.executor_backend = "mock"
    THEN [executor |-> "mock", errors |-> <<>>, backend |-> "mock"]
    ELSE IF ~in.pipeline_loaded
    THEN [executor |-> "mock",
          errors |-> <<ErrorEntry("executor_init", "pipeline_executor_import_failed")>>,
          backend |-> "mock_fallback"]
    ELSE [executor |-> "real", errors |-> <<>>, backend |-> "real"]

\* lines 471-527: the decision backend, the index, insert_run, the executor
RunSetup ==
    /\ run_pc = "setup"
    /\ \E init_raises \in BOOLEAN :
         IF run_in.rootlm_backend # "vllm"
         THEN /\ ~init_raises
              /\ decision_mode' = "mock"
              /\ decision_fallback_reason' = ""
         ELSE IF run_in.vllm_missing # ""
         THEN /\ ~init_raises
              /\ decision_mode' = "mock"
              /\ decision_fallback_reason' = "vllm_missing_config: " \o run_in.vllm_missing
         ELSE IF init_raises
         THEN /\ decision_mode' = "mock"
              /\ decision_fallback_reason' = "vllm_init_failed: boom"
         ELSE /\ decision_mode' = "vllm"
              /\ decision_fallback_reason' = ""
    /\ LET sel == _select_executor(run_in)
       IN /\ rlm_executor' = sel.executor
          /\ rlm_errors' = sel.errors
          /\ rlm_meta' = [rlm_meta EXCEPT !.executor_backend = sel.backend]
    /\ run_pc' = "plan"
    /\ UNCHANGED <<run_in, rlm_status, rlm_round, round_error, runOutputs, runLog>>
    /\ UNCHANGED <<postVars, asmVars, exVars, rqVars, fnVars>>

\* lines 529-544: the Plan round
RunPlan ==
    /\ run_pc = "plan"
    /\ rlm_round' = 1
    /\ IF run_in.policy_scalar
       THEN /\ rlm_status' = "error"
            /\ rlm_errors' = Append(rlm_errors, ErrorEntry("round1", "'int' object is not iterable"))
            /\ round_error' = "'int' object is not iterable"
            /\ UNCHANGED <<rlm_program, rlm_meta, calls>>
       ELSE IF run_in.rootlm_arg = "raising"
       THEN /\ calls' = Append(calls, Call("generate_program", TRUE))
            /\ rlm_status' = "error"
            /\ rlm_errors' = Append(rlm_errors, ErrorEntry("round1", "plan failed"))
            /\ round_error' = "plan failed"
            /\ UNCHANGED <<rlm_program, rlm_meta>>
       ELSE /\ calls' = Append(calls, Call("generate_program", FALSE))
            /\ rlm_program' = MockGenerateProgram(run_in.candidates, run_in.program)
            /\ rlm_meta' = [rlm_meta EXCEPT !.round1 =
                           RoundMeta("plan", "mock", "", TRUE, "", "")]
            /\ round_error' = ""
            /\ UNCHANGED <<rlm_status, rlm_errors>>
    /\ run_pc' = "persist"
    /\ UNCHANGED <<run_in, decision_mode, decision_fallback_reason, rlm_executor,
                   rlm_events, rlm_glimpses, rlm_glimpses_meta, rlm_subcalls, rlm_evidence,
                   rlm_final, rlm_final_answer, rlm_citations, snapshots, trace, run_result>>
    /\ UNCHANGED <<postVars, asmVars, exVars, rqVars, fnVars>>

Snapshot_without_answer ==
    [round |-> rlm_round, program |-> rlm_program, meta |-> rlm_meta,
     events |-> rlm_events, glimpses |-> rlm_glimpses,
     glimpses_meta |-> rlm_glimpses_meta, subcalls |-> rlm_subcalls,
     evidence |-> rlm_evidence, final |-> rlm_final, final_answer |-> NoneStr,
     citations |-> rlm_citations, status |-> rlm_status, errors |-> rlm_errors]

Snapshot_rollback_on_error ==
    [round |-> rlm_round, program |-> rlm_program, meta |-> rlm_meta,
     events |-> IF rlm_status = "error" THEN <<>> ELSE rlm_events,
     glimpses |-> rlm_glimpses,
     glimpses_meta |-> rlm_glimpses_meta, subcalls |-> rlm_subcalls,
     evidence |-> rlm_evidence, final |-> rlm_final, final_answer |-> rlm_final_answer,
     citations |-> rlm_citations, status |-> rlm_status, errors |-> rlm_errors]

\* what update_run_payload writes: json.dumps of every argument
Snapshot ==
    [round |-> rlm_round, program |-> rlm_program, meta |-> rlm_meta, events |-> rlm_events,
     glimpses |-> rlm_glimpses, glimpses_meta |-> rlm_glimpses_meta, subcalls |-> rlm_subcalls,
     evidence |-> rlm_evidence, final |-> rlm_final, final_answer |-> rlm_final_answer,
     citations |-> rlm_citations, status |-> rlm_status, errors |-> rlm_errors]

\* repo.update_run_payload(run_id, ...) after a round
RunPersist ==
    /\ run_pc = "persist"
    /\ snapshots' = Append(snapshots, Snapshot)
    /\ run_pc' = "trace"
    /\ UNCHANGED <<run_in, decision_mode, decision_fallback_reason, rlm_executor, rlm_status,
                   rlm_errors, rlm_meta, rlm_round, round_error, runOutputs, trace, calls,
                   run_result>>
    /\ UNCHANGED <<postVars, asmVars, exVars, rqVars, fnVars>>

StageOf(r) == CASE r = 1 -> "plan" [] r = 2 -> "examine" [] OTHER -> "decision"

AfterRound_no_early_return(r, st) ==
    IF r = 3 THEN "return" ELSE IF r = 1 THEN "examine" ELSE "decision"

\* the round continues to the next one only with status "ok"
AfterRound(r, st) ==
    IF r = 3 \/ st # "ok" THEN "return"
    ELSE IF r = 1 THEN "examine" ELSE "decision"

TraceLines_error_first(r, st, err) ==
    (IF err # "" THEN <<[stage |-> "error", status |-> st]>> ELSE <<>>)
    \o <<[stage |-> StageOf(r), status |-> st]>>

\* trace_logger.append(stage=...), then append_error(stage="error") if the round raised
TraceLines(r, st, err) ==
    <<[stage |-> StageOf(r), status |-> st]>>
    \o (IF err # "" THEN <<[stage |-> "error", status |-> st]>> ELSE <<>>)

\* the trace lines of the round that was just persisted
RunTrace ==
    /\ run_pc = "trace"
    /\ trace' = trace \o TraceLines(rlm_round, rlm_status, round_error)
    /\ run_pc' = AfterRound(rlm_round, rlm_status)
    /\ UNCHANGED <<run_in, decision_mode, decision_fallback_reason, rlm_executor, rlm_status,
                   rlm_errors, rlm_meta, rlm_round, round_error, runOutputs, snapshots, calls,
                   run_result>>
    /\ UNCHANGED <<postVars, asmVars, exVars, rqVars, fnVars>>

\* _normalize_execution: a status that is not a non-empty string becomes "ok"
NormalStatus(s) == IF s = "" THEN "ok" ELSE s

\* str(exc) of list(5)
GlimpsesMetaNotIterable == "'int' object is not iterable"

\* lines 585-608: the Examine round
RunExamine ==
    /\ run_pc = "examine"
    /\ rlm_round' = 2
    /\ \E execution \in {IF rlm_executor = "real"
                          THEN RealExecute(rlm_program, run_in.store, run_in.candidates,
                                           run_in)
                          ELSE MockExecute(rlm_program, run_in)} :
         /\ calls' = Append(calls, Call("execute", execution.raised))
         /\ IF execution.raised
            THEN /\ rlm_status' = "error"
                 /\ rlm_errors' = Append(rlm_errors, ErrorEntry("round2", execution.message))
                 /\ round_error' = execution.message
                 /\ UNCHANGED <<rlm_events, rlm_glimpses, rlm_glimpses_meta, rlm_subcalls,
                                rlm_evidence, rlm_meta>>
            ELSE IF run_in.glimpses_meta_scalar
            \* line 589 has bound events, glimpses and subcalls when
            \* list(options.get("glimpses_meta") or []) raises on line 590
            THEN /\ rlm_events' = execution.events
                 /\ rlm_glimpses' = execution.glimpses
                 /\ rlm_subcalls' = execution.subcalls
                 /\ rlm_status' = "error"
                 /\ rlm_errors' = Append(rlm_errors,
                                         ErrorEntry("round2", GlimpsesMetaNotIterable))
                 /\ round_error' = GlimpsesMetaNotIterable
                 /\ UNCHANGED <<rlm_glimpses_meta, rlm_evidence, rlm_meta>>
            ELSE /\ rlm_events' = execution.events
                 /\ rlm_glimpses' = execution.glimpses
                 /\ rlm_subcalls' = execution.subcalls
                 /\ rlm_glimpses_meta' = GlimpsesMetaOf(execution.glimpses)
                 /\ rlm_evidence' = _build_evidence(execution.events, execution.glimpses,
                                                    execution.subcalls)
                 /\ rlm_meta' = [rlm_meta EXCEPT !.round2 =
                                    [RoundMeta("examine", execution.mode,
                                               NormalStatus(execution.status), TRUE,
                                               "", "")
                                       EXCEPT !.selected_ids = execution.selected_ids]]
                 /\ rlm_status' = NormalStatus(execution.status)
                 /\ round_error' = ""
                 /\ UNCHANGED rlm_errors
    /\ run_pc' = "persist"
    /\ UNCHANGED <<run_in, decision_mode, decision_fallback_reason, rlm_executor, rlm_program,
                   rlm_final, rlm_final_answer, rlm_citations, snapshots, trace, run_result>>
    /\ UNCHANGED <<postVars, asmVars, exVars, rqVars, fnVars>>

\* except Exception as exc: decision_fallback_reason = f"vllm_request_failed: {exc}"
FallbackReason_lost(vllm_raised, message, reason) == reason

FallbackReason(vllm_raised, message, reason) ==
    IF vllm_raised THEN "vllm_request_failed: " \o message ELSE reason

\* the placeholder when the Decision round does not ask the vllm backend
NoVllmOutcome == [raised |-> FALSE, message |-> "", mode |-> "none", parsed |-> FALSE,
                  final |-> EmptyFinal]

\* the body of the try block of the Decision round (lines 653-683), given what
\* the vllm backend answers: the locals after it, and the exception if any
DecisionRound(in, mode, reason, out, ev, sc) ==
    LET vllm_raised == mode = "vllm" /\ out.raised
        reason1 == FallbackReason(vllm_raised, out.message, reason)
        mode1 == IF vllm_raised THEN "mock" ELSE mode
        final_result == IF mode = "vllm" /\ ~out.raised THEN out
                        ELSE MockGenerateFinal(in.query, ev, sc, in)
        cites == ListOrEmpty(final_result.final.citations)
        base == [mode |-> mode1, reason |-> reason1,
                 asked_vllm |-> mode = "vllm",
                 asked_mock |-> ~(mode = "vllm" /\ ~out.raised),
                 vllm_raised |-> vllm_raised,
                 mock_raised |-> ~(mode = "vllm" /\ ~out.raised) /\ final_result.raised,
                 set_final |-> FALSE, set_answer |-> FALSE, set_citations |-> FALSE,
                 final |-> EmptyFinal, final_answer |-> NoneStr, citations |-> <<>>,
                 round3 |-> NoRound, raised |-> TRUE, message |-> ""]
    IN IF final_result.raised
       THEN [base EXCEPT !.message = final_result.message]
       ELSE IF final_result.final.kind = "str"
       THEN [base EXCEPT !.set_final = TRUE, !.final = final_result.final,
                         !.message = "'str' object has no attribute 'get'"]
       ELSE IF cites.raised
       THEN [base EXCEPT !.set_final = TRUE, !.final = final_result.final,
                         !.set_answer = TRUE, !.final_answer = final_result.final.answer,
                         !.message = "'int' object is not iterable"]
       ELSE [base EXCEPT !.set_final = TRUE, !.final = final_result.final,
                         !.set_answer = TRUE, !.final_answer = final_result.final.answer,
                         !.set_citations = TRUE, !.citations = cites.items,
                         !.round3 = RoundMeta("decision", final_result.mode, "",
                                              final_result.parsed, reason1,
                                              IF reason1 # "" THEN "vllm" ELSE ""),
                         !.raised = FALSE]

\* lines 649-683: the Decision round
RunDecision ==
    /\ run_pc = "decision"
    /\ rlm_round' = 3
    /\ rlm_evidence' = _build_evidence(rlm_events, rlm_glimpses, rlm_subcalls)
    /\ \E out \in (IF decision_mode = "vllm" THEN VllmFinalOutcomes ELSE {NoVllmOutcome}) :
         LET d == DecisionRound(run_in, decision_mode, decision_fallback_reason, out,
                                rlm_evidence', rlm_subcalls)
         IN /\ decision_mode' = d.mode
            /\ decision_fallback_reason' = d.reason
            /\ calls' = calls \o (IF d.asked_vllm
                                   THEN <<Call("generate_final:vllm", d.vllm_raised)>>
                                   ELSE <<>>)
                              \o (IF d.asked_mock
                                   THEN <<Call("generate_final:mock", d.mock_raised)>>
                                   ELSE <<>>)
            /\ rlm_final' = IF d.set_final THEN d.final ELSE rlm_final
            /\ rlm_final_answer' = IF d.set_answer THEN d.final_answer ELSE rlm_final_answer
            /\ rlm_citations' = IF d.set_citations THEN d.citations ELSE rlm_citations
            /\ IF d.raised
               THEN /\ rlm_status' = "error"
                    /\ rlm_errors' = Append(rlm_errors, ErrorEntry("round3", d.message))
                    /\ round_error' = d.message
                    /\ UNCHANGED rlm_meta
               ELSE /\ rlm_meta' = [rlm_meta EXCEPT !.round3 = d.round3]
                    /\ round_error' = ""
                    /\ UNCHANGED <<rlm_status, rlm_errors>>
    /\ run_pc' = "persist"
    /\ UNCHANGED <<run_in, rlm_executor, rlm_program, rlm_events, rlm_glimpses, rlm_glimpses_meta, rlm_subcalls,
                   snapshots, trace, run_result>>
    /\ UNCHANGED <<postVars, asmVars, exVars, rqVars, fnVars>>

\* return RunResult(...)
RunReturn ==
    /\ run_pc = "return"
    /\ run_result' = [returned |-> TRUE, status |-> rlm_status, final |-> rlm_final,
                      program |-> rlm_program, glimpses |-> rlm_glimpses, subcalls |-> rlm_subcalls,
                      final_answer |-> rlm_final_answer, citations |-> rlm_citations]
    /\ run_pc' = "done"
    /\ UNCHANGED <<run_in, decision_mode, decision_fallback_reason, rlm_executor, rlm_status,
                   rlm_errors, rlm_meta, rlm_round, round_error, runOutputs, snapshots, trace, calls>>
    /\ UNCHANGED <<postVars, asmVars, exVars, rqVars, fnVars>>

(***************************************************************************)
(* examine_artifact (services/examine.py) over the glimpse cache            *)
(* (adapters/cache.py).  Callers run concurrently; a step of a call is the  *)
(* code up to its next access to the artifact table or to redis.            *)
(***************************************************************************)
Callers == {"c1", "c2"}

\* the rows of the artifacts table: repo.get_content raises ValueError for an id
\* that has no row
ArtifactRows == [a1 |-> [content |-> "Full content", content_hash |-> "h1"]]

\* options.get("content_hash") and options.get("glimpse_id"): "" stands for a
\* missing or falsy value
ExamineInputs ==
    [artifact_id : {"a1", "a2"},
     content_hash : {"", "h1"},
     glimpse_id : {"", "g1"},
     run_id : {"r1", "r2"},
     head_chars : 1..MaxHeadChars,
     has_client : BOOLEAN]

ExamineIdleInput ==
    [artifact_id |-> "a1", content_hash |-> "", glimpse_id |-> "", run_id |-> "r1",
     head_chars |-> 1, has_client |-> FALSE]

\* _clamp_int for an int value
ExamineClamp(number, lo, hi) == IF number < lo THEN lo ELSE IF number > hi THEN hi ELSE number

\* _build_spec for mode "head"
_build_spec(in) == [mode |-> "head", head_chars |-> ExamineClamp(in.head_chars, 1, 50000)]

\* _make_glimpse_id: an injective image of (artifact_id, content_hash, spec)
_make_glimpse_id(artifact_id, content_hash, spec) ==
    <<"sha256", artifact_id, content_hash, spec>>

\* glimpse_id = str(options.get("glimpse_id") or _make_glimpse_id(...))
GlimpseIdOf(in, content_hash) ==
    IF in.glimpse_id # "" THEN <<in.glimpse_id>>
    ELSE _make_glimpse_id(in.artifact_id, content_hash, _build_spec(in))

\* make_glimpse_key(artifact_id, content_hash, spec)
make_glimpse_key(artifact_id, content_hash, spec) ==
    <<"rlm:glimpse", artifact_id, content_hash, _sha256(spec)>>

NoKey == <<>>

\* a call of make_glimpse_key with the given positional arguments: Python raises
\* TypeError when their number is not the three the function declares
CallMakeGlimpseKey(args) ==
    IF Len(args) = 3
    THEN [raised |-> "", key |-> make_glimpse_key(args[1], args[2], args[3])]
    ELSE [raised |-> "TypeError", key |-> NoKey]

\* examine._extract_head with the meta that examine_artifact completes
ExamineExtract(content, spec, artifact_id, content_hash) ==
    LET glimpse_text == PySliceTo(content, spec.head_chars)
    IN [glimpse_text |-> glimpse_text,
        glimpse_meta |-> [mode |-> "head", head_chars |-> spec.head_chars,
                          text_length |-> Len(glimpse_text),
                          artifact_id |-> artifact_id, content_hash |-> content_hash]]

\* what redis may hold before the calls start: nothing, an entry that decodes,
\* an entry that json.loads rejects
CacheContents ==
    LET key == make_glimpse_key("a1", "h1", [mode |-> "head", head_chars |-> 1])
    IN {<<>>,
        <<[key |-> key, raw |-> "{\"meta\":{},\"text\":\"F\"}"]>>,
        <<[key |-> key, raw |-> "{not json"]>>}

NoExamineOut == [raised |-> "", glimpse_meta |-> <<>>, glimpse_text |-> ""]
ExamineRaised(exc) == [NoExamineOut EXCEPT !.raised = exc]

ExamineInit ==
    /\ ex_in \in [Callers -> ExamineInputs]
    /\ ex_pc = [c \in Callers |-> "start"]
    /\ ex_out = [c \in Callers |-> NoExamineOut]
    /\ cache \in CacheContents

ExamineIdle ==
    /\ ex_in = [c \in Callers |-> ExamineIdleInput]
    /\ ex_pc = [c \in Callers |-> "idle"]
    /\ ex_out = [c \in Callers |-> NoExamineOut]
    /\ cache = <<>>

\* lines 116-132: the spec, the glimpse id and, when options carry a
\* content_hash, the key of the first lookup; make_glimpse_key(run_id, glimpse_id)
\* passes two arguments
ExamineStart(c) ==
    /\ ex_pc[c] = "start"
    /\ LET in == ex_in[c]
           glimpse_id == GlimpseIdOf(in, in.content_hash)
           made == CallMakeGlimpseKey(<<in.run_id, glimpse_id>>)
       IN IF in.content_hash = ""
          THEN /\ ex_pc' = [ex_pc EXCEPT ![c] = "fetch"]
               /\ UNCHANGED ex_out
          ELSE IF made.raised # ""
          THEN /\ ex_pc' = [ex_pc EXCEPT ![c] = "raised"]
               /\ ex_out' = [ex_out EXCEPT ![c] = ExamineRaised(made.raised)]
          ELSE /\ ex_pc' = [ex_pc EXCEPT ![c] = "lookup"]
               /\ UNCHANGED ex_out
    /\ UNCHANGED <<ex_in, cache>>
    /\ UNCHANGED <<postVars, asmVars, runVars, rqVars, fnVars>>

\* lines 138-142: repo.get_content, the glimpse id from the stored hash, the key
\* of the second lookup, again from two arguments
ExamineFetch(c) ==
    /\ ex_pc[c] = "fetch"
    /\ LET in == ex_in[c]
       IN IF in.artifact_id \notin DOMAIN ArtifactRows
          THEN /\ ex_pc' = [ex_pc EXCEPT ![c] = "raised"]
               /\ ex_out' = [ex_out EXCEPT ![c] = ExamineRaised("ValueError")]
          ELSE LET record == ArtifactRows[in.artifact_id]
                   glimpse_id == GlimpseIdOf(in, record.content_hash)
                   made == CallMakeGlimpseKey(<<in.run_id, glimpse_id>>)
               IN IF made.raised # ""
                  THEN /\ ex_pc' = [ex_pc EXCEPT ![c] = "raised"]
                       /\ ex_out' = [ex_out EXCEPT ![c] = ExamineRaised(made.raised)]
                  ELSE /\ ex_pc' = [ex_pc EXCEPT ![c] = "lookup"]
                       /\ UNCHANGED ex_out
    /\ UNCHANGED <<ex_in, cache>>
    /\ UNCHANGED <<postVars, asmVars, runVars, rqVars, fnVars>>

(***************************************************************************)
(* RlmRunService.run (app/services.py) calling run_rlm, for requests that   *)
(* run concurrently on one database and one trace directory.  The local     *)
(* variables of run_rlm are a record per request; a step of a request is    *)
(* the code up to its next access to the database or to the trace file.     *)
(***************************************************************************)
Requests == {"t1", "t2"}

\* str.strip() for blanks
RECURSIVE LStrip(_)
LStrip(s) == IF s # "" /\ SubSeq(s, 1, 1) = " " THEN LStrip(SubSeq(s, 2, Len(s))) ELSE s
RECURSIVE RStrip(_)
RStrip(s) ==
    IF s # "" /\ SubSeq(s, Len(s), Len(s)) = " " THEN RStrip(SubSeq(s, 1, Len(s) - 1)) ELSE s
PyStrip_identity(s) == s
PyStrip(s) == RStrip(LStrip(s))

\* the options of a request with the defaults: Mock root-LM, pipeline executor,
\* one candidate whose content is stored
RqBaseOptions ==
    [query |-> "what is this?", rootlm_backend |-> "mock", vllm_missing |-> "",
     rootlm_arg |-> "none", policy_scalar |-> FALSE,
     program |-> [kind |-> "none", steps |-> <<>>], limits |-> NoLimits,
     executor_backend |-> "real", pipeline_loaded |-> TRUE, vars_scalar |-> FALSE,
     executor_status |-> NoneStr, mock_payload |-> FALSE, citations |-> AbsentList,
     final_answer |-> NoneStr, candidates |-> <<RunCandidate>>,
     store |-> [a1 |-> "Full content"]]

\* one deviation from the defaults each
RqOptionsSet ==
    { RqBaseOptions,
      [RqBaseOptions EXCEPT !.program =
          [kind |-> "dict_steps",
           steps |-> << PStep("select", <<"a1", "a2">>, "", 0, <<>>),
                        PStep("glimpse", <<>>, "a1", 4, <<>>),
                        PStep("repl", <<>>, "", 0, <<>>) >>]],
      [RqBaseOptions EXCEPT !.rootlm_arg = "raising"],
      [RqBaseOptions EXCEPT !.citations = ScalarValue],
      [RqBaseOptions EXCEPT !.executor_backend = "mock", !.mock_payload = TRUE] }

\* a request: the arguments of RlmRunService.run, whether the sessions table has
\* the session, and what the vllm backend does in this execution (init_raises:
\* the constructor raises; out: what generate_final comes back with)
Request(query, session_known, opts, init_raises, out) ==
    [query |-> query, session_known |-> session_known,
     opts |-> [opts EXCEPT !.query = query], init_raises |-> init_raises, out |-> out]

RequestInputs ==
    { Request("what is this?", TRUE, o, FALSE, NoVllmOutcome) : o \in RqOptionsSet }
    \cup { Request("what is this?", TRUE, [RqBaseOptions EXCEPT !.rootlm_backend = "vllm"],
                   FALSE, out) : out \in VllmFinalOutcomes }
    \cup { Request("what is this?", TRUE, [RqBaseOptions EXCEPT !.rootlm_backend = "vllm"],
                   TRUE, NoVllmOutcome),
           Request("", TRUE, RqBaseOptions, FALSE, NoVllmOutcome),
           Request("  ", TRUE, RqBaseOptions, FALSE, NoVllmOutcome),
           Request("what is this?", FALSE, RqBaseOptions, FALSE, NoVllmOutcome) }

RequestIdleInput == Request("", TRUE, RunIdleInput, FALSE, NoVllmOutcome)

\* the local variables of run_rlm before line 471
RqLocals0 ==
    [round |-> 0, decision_mode |-> "mock", decision_fallback_reason |-> "",
     executor |-> "", status |-> "ok", errors |-> <<>>, meta |-> NoMeta,
     program |-> EmptyProgram, events |-> <<>>, glimpses |-> <<>>,
     glimpses_meta |-> <<>>, subcalls |-> <<>>,
     evidence |-> _build_evidence(<<>>, <<>>, <<>>), final |-> EmptyFinal,
     final_answer |-> NoneStr, citations |-> <<>>, round_error |-> "", calls |-> <<>>]

\* lines 471-527 without the database: the decision backend and the executor
SetupLocals(rq) ==
    LET in == rq.opts
        sel == _select_executor(in)
        vllm == in.rootlm_backend = "vllm"
    IN [RqLocals0 EXCEPT
          !.decision_mode = IF vllm /\ in.vllm_missing = "" /\ ~rq.init_raises
                            THEN "vllm" ELSE "mock",
          !.decision_fallback_reason =
              IF ~vllm THEN ""
              ELSE IF in.vllm_missing # "" THEN "vllm_missing_config: " \o in.vllm_missing
              ELSE IF rq.init_raises THEN "vllm_init_failed: boom"
              ELSE "",
          !.executor = sel.executor,
          !.errors = sel.errors,
          !.meta = [NoMeta EXCEPT !.executor_backend = sel.backend]]

\* lines 529-544: the Plan round
PlanLocals(in, loc) ==
    IF in.policy_scalar
    THEN [loc EXCEPT !.round = 1, !.status = "error",
                     !.errors = Append(loc.errors,
                                       ErrorEntry("round1", "'int' object is not iterable")),
                     !.round_error = "'int' object is not iterable"]
    ELSE IF in.rootlm_arg = "raising"
    THEN [loc EXCEPT !.round = 1, !.status = "error",
                     !.calls = Append(loc.calls, Call("generate_program", TRUE)),
                     !.errors = Append(loc.errors, ErrorEntry("round1", "plan failed")),
                     !.round_error = "plan failed"]
    ELSE [loc EXCEPT !.round = 1,
                     !.calls = Append(loc.calls, Call("generate_program", FALSE)),
                     !.program = MockGenerateProgram(in.candidates, in.program),
                     !.meta = [loc.meta EXCEPT !.round1 =
                                  RoundMeta("plan", "mock", "", TRUE, "", "")],
                     !.round_error = ""]

\* lines 585-608: the Examine round, given what the executor came back with
ExamineLocalsWith(loc, execution) ==
    IF execution.raised
    THEN [loc EXCEPT !.round = 2, !.status = "error",
                     !.calls = Append(loc.calls, Call("execute", TRUE)),
                     !.errors = Append(loc.errors, ErrorEntry("round2", execution.message)),
                     !.round_error = execution.message]
    ELSE [loc EXCEPT !.round = 2,
                     !.calls = Append(loc.calls, Call("execute", FALSE)),
                     !.events = execution.events,
                     !.glimpses = execution.glimpses,
                     !.subcalls = execution.subcalls,
                     !.glimpses_meta = GlimpsesMetaOf(execution.glimpses),
                     !.evidence = _build_evidence(execution.events, execution.glimpses,
                                                  execution.subcalls),
                     !.meta = [loc.meta EXCEPT !.round2 =
                                  [RoundMeta("examine", execution.mode,
                                             NormalStatus(execution.status), TRUE, "", "")
                                     EXCEPT !.selected_ids = execution.selected_ids]],
                     !.status = NormalStatus(execution.status),
                     !.round_error = ""]

ExamineLocals(in, loc) ==
    ExamineLocalsWith(loc, IF loc.executor = "real"
                           THEN RealExecute(loc.program, in.store, in.candidates, in)
                           ELSE MockExecute(loc.program, in))

\* lines 649-683: the Decision round, given the outcome d of its try block
DecisionLocalsWith(loc, evidence, d) ==
    [loc EXCEPT
        !.round = 3,
        !.evidence = evidence,
        !.decision_mode = d.mode,
        !.decision_fallback_reason = d.reason,
        !.calls = loc.calls
                  \o (IF d.asked_vllm THEN <<Call("generate_final:vllm", d.vllm_raised)>>
                      ELSE <<>>)
                  \o (IF d.asked_mock THEN <<Call("generate_final:mock", d.mock_raised)>>
                      ELSE <<>>),
        !.final = IF d.set_final THEN d.final ELSE loc.final,
        !.final_answer = IF d.set_answer THEN d.final_answer ELSE loc.final_answer,
        !.citations = IF d.set_citations THEN d.citations ELSE loc.citations,
        !.status = IF d.raised THEN "error" ELSE loc.status,
        !.errors = IF d.raised THEN Append(loc.errors, ErrorEntry("round3", d.message))
                   ELSE loc.errors,
        !.round_error = IF d.raised THEN d.message ELSE "",
        !.meta = IF d.raised THEN loc.meta ELSE [loc.meta EXCEPT !.round3 = d.round3]]

DecisionLocals(rq, loc) ==
    DecisionLocalsWith(loc, _build_evidence(loc.events, loc.glimpses, loc.subcalls),
        DecisionRound(rq.opts, loc.decision_mode, loc.decision_fallback_reason,
                      IF loc.decision_mode = "vllm" THEN rq.out ELSE NoVllmOutcome,
                      _build_evidence(loc.events, loc.glimpses, loc.subcalls),
                      loc.subcalls))

\* the arguments of update_run_payload
Payload(loc) ==
    [round |-> loc.round, program |-> loc.program, meta |-> loc.meta,
     events |-> loc.events, glimpses |-> loc.glimpses,
     glimpses_meta |-> loc.glimpses_meta, subcalls |-> loc.subcalls,
     evidence |-> loc.evidence, final |-> loc.final, final_answer |-> loc.final_answer,
     citations |-> loc.citations, status |-> loc.status, errors |-> loc.errors]

RowIdOf_reused(rows) == 1

\* INSERT ... RETURNING id: the id of the new row
RowIdOf(rows) == Len(rows) + 1

RunResponse_tagged(loc, run_id) ==
    [run_id |-> run_id, status |-> loc.status, program |-> loc.program,
     glimpses |-> loc.glimpses, subcalls |-> loc.subcalls,
     final_answer |-> <<loc.final_answer, run_id>>, citations |-> loc.citations,
     final |-> loc.final]

\* the RunResult as RlmRunService.run returns it (lines 91-100)
RunResponse(loc, run_id) ==
    [run_id |-> run_id, status |-> loc.status, program |-> loc.program,
     glimpses |-> loc.glimpses, subcalls |-> loc.subcalls,
     final_answer |-> loc.final_answer, citations |-> loc.citations,
     final |-> loc.final]

NoResponse == [status_code |-> 0, detail |-> "", result |-> RunResponse(RqLocals0, 0)]
Rejected(status_code, detail) == [NoResponse EXCEPT !.status_code = status_code,
                                                    !.detail = detail]

RequestInit ==
    /\ rq_in \in [Requests -> RequestInputs]
    /\ rq_pc = [t \in Requests |-> "service"]
    /\ rq_run_id = [t \in Requests |-> 0]
    /\ rq_loc = [t \in Requests |-> RqLocals0]
    /\ rq_resp = [t \in Requests |-> NoResponse]
    /\ db_runs = <<>>
    /\ db_run_events = <<>>
    /\ trace_files = [id \in 1..Cardinality(Requests) |-> <<>>]

RequestIdle ==
    /\ rq_in = [t \in Requests |-> RequestIdleInput]
    /\ rq_pc = [t \in Requests |-> "idle"]
    /\ rq_run_id = [t \in Requests |-> 0]
    /\ rq_loc = [t \in Requests |-> RqLocals0]
    /\ rq_resp = [t \in Requests |-> NoResponse]
    /\ db_runs = <<>>
    /\ db_run_events = <<>>
    /\ trace_files = [id \in 1..Cardinality(Requests) |-> <<>>]

\* services.py lines 83-84: the empty-query check
RqService(t) ==
    /\ rq_pc[t] = "service"
    /\ IF PyStrip(rq_in[t].query) = ""
       THEN /\ rq_pc' = [rq_pc EXCEPT ![t] = "rejected"]
            /\ rq_resp' = [rq_resp EXCEPT ![t] = Rejected(400, "empty_query_not_allowed")]
       ELSE /\ rq_pc' = [rq_pc EXCEPT ![t] = "setup"]
            /\ UNCHANGED rq_resp
    /\ UNCHANGED <<rq_in, rq_run_id, rq_loc, db_runs, db_run_events, trace_files>>
    /\ UNCHANGED <<postVars, asmVars, runVars, exVars, fnVars>>

\* run_rlm lines 471-527: build_candidate_index raises ValueError for a session
\* without a row (services.py lines 88-89 turn it into 404), then insert_run
RqSetup(t) ==
    /\ rq_pc[t] = "setup"
    /\ IF ~rq_in[t].session_known
       THEN /\ rq_pc' = [rq_pc EXCEPT ![t] = "rejected"]
            /\ rq_resp' = [rq_resp EXCEPT ![t] = Rejected(404, "session_id not found: s9")]
            /\ rq_loc' = [rq_loc EXCEPT ![t].calls = <<Call("build_candidate_index", TRUE)>>]
            /\ UNCHANGED <<rq_run_id, db_runs>>
       ELSE /\ rq_run_id' = [rq_run_id EXCEPT ![t] = RowIdOf(db_runs)]
            /\ db_runs' = Append(db_runs, [query |-> rq_in[t].query, writes |-> <<>>])
            /\ rq_loc' = [rq_loc EXCEPT ![t] =
                             [SetupLocals(rq_in[t]) EXCEPT !.calls =
                                 <<Call("build_candidate_index", FALSE)>>]]
            /\ rq_pc' = [rq_pc EXCEPT ![t] = "plan"]
            /\ UNCHANGED rq_resp
    /\ UNCHANGED <<rq_in, db_run_events, trace_files>>
    /\ UNCHANGED <<postVars, asmVars, runVars, exVars, fnVars>>

\* the three rounds, on the local variables only
RqPlan(t) ==
    /\ rq_pc[t] = "plan"
    /\ rq_loc' = [rq_loc EXCEPT ![t] = PlanLocals(rq_in[t].opts, rq_loc[t])]
    /\ rq_pc' = [rq_pc EXCEPT ![t] = "persist"]
    /\ UNCHANGED <<rq_in, rq_run_id, rq_resp, db_runs, db_run_events, trace_files>>
    /\ UNCHANGED <<postVars, asmVars, runVars, exVars, fnVars>>

RqExamine(t) ==
    /\ rq_pc[t] = "examine"
    /\ rq_loc' = [rq_loc EXCEPT ![t] = ExamineLocals(rq_in[t].opts, rq_loc[t])]
    /\ rq_pc' = [rq_pc EXCEPT ![t] = "persist"]
    /\ UNCHANGED <<rq_in, rq_run_id, rq_resp, db_runs, db_run_events, trace_files>>
    /\ UNCHANGED <<postVars, asmVars, runVars, exVars, fnVars>>

RqDecision(t) ==
    /\ rq_pc[t] = "decision"
    /\ rq_loc' = [rq_loc EXCEPT ![t] = DecisionLocals(rq_in[t], rq_loc[t])]
    /\ rq_pc' = [rq_pc EXCEPT ![t] = "persist"]
    /\ UNCHANGED <<rq_in, rq_run_id, rq_resp, db_runs, db_run_events, trace_files>>
    /\ UNCHANGED <<postVars, asmVars, runVars, exVars, fnVars>>

\* update_run_payload: UPDATE rlm_runs SET ... WHERE id = :run_id, one transaction;
\* it does not touch rlm_run_events
RqPersist(t) ==
    /\ rq_pc[t] = "persist"
    /\ db_runs' = [db_runs EXCEPT ![rq_run_id[t]].writes =
                      Append(@, [by |-> t, payload |-> Payload(rq_loc[t])])]
    /\ rq_pc' = [rq_pc EXCEPT ![t] = "trace"]
    /\ UNCHANGED <<rq_in, rq_run_id, rq_loc, rq_resp, db_run_events, trace_files>>
    /\ UNCHANGED <<postVars, asmVars, runVars, exVars, fnVars>>

\* TraceLogger: the lines go to <trace_dir>/<run_id>.jsonl
RqTrace(t) ==
    /\ rq_pc[t] = "trace"
    /\ LET lines == TraceLines(rq_loc[t].round, rq_loc[t].status, rq_loc[t].round_error)
       IN trace_files' = [trace_files EXCEPT ![rq_run_id[t]] =
                             @ \o [i \in DOMAIN lines |->
                                      [by |-> t, run_id |-> rq_run_id[t],
                                       stage |-> lines[i].stage]]]
    /\ rq_pc' = [rq_pc EXCEPT ![t] = AfterRound(rq_loc[t].round, rq_loc[t].status)]
    /\ UNCHANGED <<rq_in, rq_run_id, rq_loc, rq_resp, db_runs, db_run_events>>
    /\ UNCHANGED <<postVars, asmVars, runVars, exVars, fnVars>>

\* return RunResult(...), services.py lines 91-100
RqReturn(t) ==
    /\ rq_pc[t] = "return"
    /\ rq_resp' = [rq_resp EXCEPT ![t] =
                      [status_code |-> 200, detail |-> "",
                       result |-> RunResponse(rq_loc[t], rq_run_id[t])]]
    /\ rq_pc' = [rq_pc EXCEPT ![t] = "done"]
    /\ UNCHANGED <<rq_in, rq_run_id, rq_loc, db_runs, db_run_events, trace_files>>
    /\ UNCHANGED <<postVars, asmVars, runVars, exVars, fnVars>>

\* the snapshots a request persists when it runs alone
SoloFrom2(rq, l2) ==
    <<Payload(l2)>> \o (IF l2.status # "ok" THEN <<>> ELSE <<Payload(DecisionLocals(rq, l2))>>)
SoloFrom1(rq, l1) ==
    <<Payload(l1)>> \o (IF l1.status # "ok" THEN <<>>
                        ELSE SoloFrom2(rq, ExamineLocals(rq.opts, l1)))
SoloSnapshots(rq) == SoloFrom1(rq, PlanLocals(rq.opts, SetupLocals(rq)))

(***************************************************************************)
(* RlmRepoSQL.list_candidates (adapters/repos_sql.py) over the artifacts   *)
(* table.  Weights are counted in tenths (10 is the default 1.0); the      *)
(* content of an artifact is the set of words a token can hit.             *)
(***************************************************************************)
WeightOne == 10

\* table sessions: id -> project_id
SessionProject == [s1 |-> "P1", s2 |-> "P1", s3 |-> "P2"]

Artifact(id, project_id, session_id, scope, type, status, pinned, weight, words, created_at) ==
    [id |-> id, project_id |-> project_id, session_id |-> session_id, scope |-> scope,
     type |-> type, status |-> status, pinned |-> pinned, weight |-> weight,
     words |-> words, created_at |-> created_at]

\* the rows a table can hold: own and foreign session, project and global
\* scope, a foreign project, the three statuses, the four types, weights
\* 0, 0.1, 0.5, 1.0 and more
ArtifactsUniverse ==
    { Artifact("a1", "P1", "s1", "session", "doc", "active", FALSE, 10, {"cache"}, 1),
      Artifact("a2", "P1", "s2", "session", "doc", "active", TRUE, 20, {}, 2),
      Artifact("a3", "P1", NoneStr, "project", "code", "active", FALSE, 5, {}, 3),
      Artifact("a4", "P1", NoneStr, "project", "doc", "active", FALSE, 0, {"cache", "key"}, 4),
      Artifact("a5", "P1", NoneStr, "global", "doc", "active", TRUE, 1, {}, 5),
      Artifact("a6", "P2", NoneStr, "project", "doc", "active", TRUE, 30, {"key"}, 6),
      Artifact("a7", "P1", NoneStr, "project", "note", "archived", TRUE, 10, {"cache"}, 7),
      Artifact("a8", "P1", NoneStr, "project", "cache", "active", FALSE, 50, {"key"}, 8),
      Artifact("a9", "P1", "s1", "session", "doc", "deleted", FALSE, 10, {"cache"}, 9) }

RetrievalOptions(include_global, top_k, allowed_types) ==
    [include_global |-> include_global, top_k |-> top_k, allowed_types |-> allowed_types]

RetrievalInputs ==
    { [artifacts |-> table, session_id |-> session_id, tokens |-> <<"cache", "key">>,
       opt |-> RetrievalOptions(include_global, top_k, allowed_types)] :
        table \in SUBSET ArtifactsUniverse,
        session_id \in {"s1", "s3", "s9"},
        include_global \in BOOLEAN,
        top_k \in 1..(MaxLimit + 1),
        allowed_types \in {<<>>, <<"doc">>, <<"doc", "code", "note">>} }

RetrieveIdleInput ==
    [artifacts |-> {}, session_id |-> "s1", tokens |-> <<>>,
     opt |-> RetrievalOptions(TRUE, 1, <<>>)]

\* scopes: session and project, global when include_global
ScopesOf(opt) ==
    {"session", "project"} \cup (IF opt.include_global THEN {"global"} ELSE {})

\* the subquery hit_count: the tokens the content contains
HitCount(row, tokens) ==
    Cardinality({ i \in DOMAIN tokens : tokens[i] \in row.words })

\* the WHERE clause with every session taken for the caller's (the
\* session_id conjunct dropped)
RowVisible_any_session(row, project_id, session_id, opt) ==
    /\ row.status = "active"
    /\ row.project_id = project_id
    /\ row.scope \in ScopesOf(opt)
    /\ \/ opt.allowed_types = <<>>
       \/ \E i \in DOMAIN opt.allowed_types : opt.allowed_types[i] = row.type

\* the WHERE clause; allowed_types = opt.allowed_types or None, and NULL
\* switches the type condition off
RowVisible(row, project_id, session_id, opt) ==
    /\ row.status = "active"
    /\ row.project_id = project_id
    /\ row.scope \in ScopesOf(opt)
    /\ \/ opt.allowed_types = <<>>
       \/ \E i \in DOMAIN opt.allowed_types : opt.allowed_types[i] = row.type
    /\ \/ row.scope = "session" /\ row.session_id = session_id
       \/ row.scope # "session"

\* ORDER BY pinned DESC, weight DESC, hit_count DESC, created_at DESC
RowBefore(a, b, tokens) ==
    LET ha == HitCount(a, tokens)
        hb == HitCount(b, tokens)
    IN \/ a.pinned /\ ~b.pinned
       \/ a.pinned = b.pinned /\ a.weight > b.weight
       \/ a.pinned = b.pinned /\ a.weight = b.weight /\ ha > hb
       \/ a.pinned = b.pinned /\ a.weight = b.weight /\ ha = hb
          /\ a.created_at > b.created_at

RECURSIVE OrderRows(_, _)
OrderRows(rows, tokens) ==
    IF rows = {} THEN <<>>
    ELSE LET first == CHOOSE a \in rows :
                          \A b \in rows \ {a} : RowBefore(a, b, tokens)
         IN <<first>> \o OrderRows(rows \ {first}, tokens)

\* the statement: WHERE, ORDER BY, LIMIT :top_k, with the selected columns
SelectCandidates(in, project_id) ==
    LET visible == { row \in in.artifacts :
                        RowVisible(row, project_id, in.session_id, in.opt) }
        ordered == OrderRows(visible, in.tokens)
        limited == SubSeq(ordered, 1, Min2(in.opt.top_k, Len(ordered)))
    IN [i \in DOMAIN limited |->
           [artifact_id |-> limited[i].id, scope |-> limited[i].scope,
            type |-> limited[i].type, pinned |-> limited[i].pinned,
            weight |-> limited[i].weight,
            hit_count |-> HitCount(limited[i], in.tokens)]]

\* Candidate(...) of one returned row: weight = float(r.get("weight") or 1.0)
CandidateOf(r) ==
    LET weight == IF r.weight # 0 THEN r.weight ELSE WeightOne
        pinned_bonus == IF r.pinned THEN 5 * WeightOne ELSE 0
    IN [artifact_id |-> r.artifact_id, scope |-> r.scope, type |-> r.type,
        pinned |-> r.pinned, weight |-> weight,
        base_score |-> weight + 2 * r.hit_count + pinned_bonus,
        score_breakdown |-> [weight |-> weight, hit_count |-> r.hit_count,
                             pinned_bonus |-> pinned_bonus]]

NoRetrieval == [raised |-> "", rows |-> <<>>, index |-> [candidates |-> <<>>]]

RetrieveInit ==
    /\ lc_in \in RetrievalInputs
    /\ lc_pc = "call"
    /\ lc_out = NoRetrieval

RetrieveIdle ==
    /\ lc_in = RetrieveIdleInput
    /\ lc_pc = "idle"
    /\ lc_out = NoRetrieval

\* list_candidates: _get_project_id_by_session, the statement, the records
ListCandidates ==
    /\ lc_pc = "call"
    /\ IF lc_in.session_id \notin DOMAIN SessionProject
       THEN /\ lc_out' = [NoRetrieval EXCEPT
                             !.raised = "session_id not found: " \o lc_in.session_id]
            /\ lc_pc' = "raised"
       ELSE LET project_id == SessionProject[lc_in.session_id]
                rows == SelectCandidates(lc_in, project_id)
            IN /\ lc_out' = [raised |-> "",
                             rows |-> rows,
                             index |-> [session_id |-> lc_in.session_id,
                                        project_id |-> project_id,
                                        candidates |->
                                            [i \in DOMAIN rows |-> CandidateOf(rows[i])]]]
               /\ lc_pc' = "returned"
    /\ UNCHANGED lc_in
    /\ UNCHANGED <<postVars, asmVars, runVars, exVars, rqVars, vlVars, peVars, sxVars, adVars, jdVars>>

(***************************************************************************)
(* VllmRootLM.generate_program / generate_final (services/run_pipeline.py) *)
(* on the raw text of the adapter.  A raw text is a sequence of tokens:    *)
(*   "{" "}"   braces          "1"  a digit          " "  white space      *)
(*   "m"       the member "program": {...} (Plan) or "final": {...}        *)
(*             (Decision), valid between braces only                       *)
(*   "x"       prose           "f"  a code fence (three backquotes)        *)
(***************************************************************************)
MaxRawLen == 4

RawTokens == {"{", "}", "1", " ", "m", "x", "f"}

RECURSIVE RawTextsOfLen(_)
RawTextsOfLen(n) ==
    IF n = 0 THEN {<<>>}
    ELSE { Append(t, c) : t \in RawTextsOfLen(n - 1), c \in RawTokens }

RawTexts == UNION { RawTextsOfLen(n) : n \in 0..MaxRawLen }

\* str.strip() on a token sequence
RECURSIVE TokLStrip(_)
TokLStrip(t) == IF t # <<>> /\ Head(t) = " " THEN TokLStrip(Tail(t)) ELSE t

RECURSIVE TokRStrip(_)
TokRStrip(t) ==
    IF t # <<>> /\ t[Len(t)] = " " THEN TokRStrip(SubSeq(t, 1, Len(t) - 1)) ELSE t

TokStrip(t) == TokRStrip(TokLStrip(t))

\* the positions of a token in a text
PositionsOf(t, c) == { i \in DOMAIN t : t[i] = c }

SetMin(S) == CHOOSE i \in S : \A j \in S : i <= j
SetMax(S) == CHOOSE i \in S : \A j \in S : j <= i

\* json.loads: the value of a text, or the JSONDecodeError
JsonInvalid == [kind |-> "JSONDecodeError", member |-> FALSE]
JsonNumber == [kind |-> "number", member |-> FALSE]
JsonObject(member) == [kind |-> "object", member |-> member]

json_loads(t) ==
    LET s == TokStrip(t)
        inner == IF Len(s) >= 2 THEN TokStrip(SubSeq(s, 2, Len(s) - 1)) ELSE <<>>
    IN IF s # <<>> /\ \A i \in DOMAIN s : s[i] = "1" THEN JsonNumber
       ELSE IF Len(s) >= 2 /\ s[1] = "{" /\ s[Len(s)] = "}"
               /\ (inner = <<>> \/ inner = <<"m">>)
       THEN JsonObject(inner = <<"m">>)
       ELSE JsonInvalid

\* _JSON_FENCE_RE.search(cleaned): group(1) between the first two fences
FenceMatch(t) ==
    LET fences == PositionsOf(t, "f")
    IN IF Cardinality(fences) < 2
       THEN [found |-> FALSE, group |-> <<>>]
       ELSE LET open == SetMin(fences)
                close == SetMin(fences \ {open})
            IN [found |-> TRUE, group |-> SubSeq(t, open + 1, close - 1)]

\* re.search(r"\{.*\}", cleaned, re.DOTALL): first "{" to the last "}" after it
BraceMatch(t) ==
    LET opens == PositionsOf(t, "{")
        closes == IF opens = {} THEN {}
                  ELSE { i \in PositionsOf(t, "}") : i > SetMin(opens) }
    IN IF closes = {}
       THEN [found |-> FALSE, group |-> <<>>]
       ELSE [found |-> TRUE, group |-> SubSeq(t, SetMin(opens), SetMax(closes))]

ParsedNone == [kind |-> "None", member |-> FALSE]

\* _extract_json_payload: the value, None, or the error the second json.loads
\* raises outside the try
_extract_json_payload(text) ==
    LET stripped == TokStrip(text)
        fence == FenceMatch(stripped)
        cleaned == IF fence.found THEN TokStrip(fence.group) ELSE stripped
        whole == json_loads(cleaned)
        braces == BraceMatch(cleaned)
    IN IF stripped = <<>> THEN ParsedNone
       ELSE IF whole.kind # "JSONDecodeError" THEN whole
       ELSE IF braces.found THEN json_loads(braces.group)
       ELSE ParsedNone

VllmCall(method, raw_text) == [method |-> method, raw_text |-> raw_text]

VllmCalls == { VllmCall(method, raw_text) :
                  method \in {"generate_program", "generate_final"},
                  raw_text \in RawTexts }

VllmIdleCall == VllmCall("generate_program", <<>>)

NoVllmResult == [raised |-> "", parsed |-> FALSE, value |-> "", answer |-> <<>>]

\* generate_program / generate_final after self._adapter.generate(prompt):
\* value is "shell" (the empty-steps program, or answer = raw text with no
\* citations), "member" (parsed["program"] / parsed["final"]) or "payload"
\* (the parsed object itself)
VllmGenerate(call) ==
    LET parsed == _extract_json_payload(call.raw_text)
    IN CASE parsed.kind = "JSONDecodeError" ->
              [NoVllmResult EXCEPT !.raised = "JSONDecodeError"]
         [] parsed.kind = "None" ->
              [raised |-> "", parsed |-> FALSE, value |-> "shell",
               answer |-> IF call.method = "generate_final"
                          THEN TokStrip(call.raw_text) ELSE <<>>]
         [] parsed.kind = "number" ->
              [NoVllmResult EXCEPT !.raised = "AttributeError"]
         [] OTHER ->
              [raised |-> "", parsed |-> TRUE,
               value |-> IF parsed.member THEN "member" ELSE "payload",
               answer |-> <<>>]

ParseInit ==
    /\ vl_in \in VllmCalls
    /\ vl_pc = "call"
    /\ vl_out = NoVllmResult

ParseIdle ==
    /\ vl_in = VllmIdleCall
    /\ vl_pc = "idle"
    /\ vl_out = NoVllmResult

VllmReturn ==
    /\ vl_pc = "call"
    /\ vl_out' = VllmGenerate(vl_in)
    /\ vl_pc' = IF vl_out'.raised = "" THEN "returned" ELSE "raised"
    /\ UNCHANGED vl_in
    /\ UNCHANGED <<postVars, asmVars, runVars, exVars, rqVars, lcVars, peVars, sxVars, adVars, jdVars>>

(***************************************************************************)
(* PipelineExecutor.execute (services/pipeline_executor.py) on programs    *)
(* whose steps carry n as the program gives it.                            *)
(***************************************************************************)
MaxPipeSteps == 5

RawStep(action, artifact_id, n) == [action |-> action, artifact_id |-> artifact_id, n |-> n]

\* head glimpses of a1 for every kind of n, and a step that fails
PipeRawSteps ==
    { RawStep("glimpse", "a1", n) :
          n \in {IntN(0 - 1), IntN(0), IntN(1), IntN(5), TextN, MissingN} }
    \cup { RawStep("repl", "", MissingN) }

RECURSIVE PipeProgramsOfLen(_)
PipeProgramsOfLen(n) ==
    IF n = 0 THEN {<<>>}
    ELSE { Append(p, s) : p \in PipeProgramsOfLen(n - 1), s \in PipeRawSteps }

PipePrograms == UNION { PipeProgramsOfLen(n) : n \in 0..MaxPipeSteps }

PipeStore == [a1 |-> "abc", a2 |-> "a-a-a-a-a-a-a", a3 |-> "aaaa"]

\* the steps as the loop body reads them: n = _safe_int(step.get("n"), 0)
ReadSteps(raw) ==
    [i \in DOMAIN raw |->
        IF "selected_ids" \in DOMAIN raw[i] THEN raw[i]
        ELSE PStep(raw[i].action, <<>>, raw[i].artifact_id, _safe_int(raw[i].n, 0), <<>>)]

PipeInit ==
    /\ pe_in \in PipePrograms
    /\ pe_pc = "call"
    /\ pe_out = PipeState0

PipeIdle ==
    /\ pe_in = <<>>
    /\ pe_pc = "idle"
    /\ pe_out = PipeState0

\* PipelineExecutor(repo).execute({"steps": steps}, index, {}) with no
\* candidates in the index
PipeExecute ==
    /\ pe_pc = "call"
    /\ pe_out' = PipelineExecute([kind |-> "dict_steps", steps |-> ReadSteps(pe_in)],
                                 PipeStore, <<>>)
    /\ pe_pc' = "returned"
    /\ UNCHANGED pe_in
    /\ UNCHANGED <<postVars, asmVars, runVars, exVars, rqVars, lcVars, vlVars, sxVars, adVars, jdVars>>

\* glimpse steps of every mode, glimpse steps that fail, and a select step
GlimpseSteps ==
    { RangeStep("a1", start, end) : start \in (0 - 1)..5, end \in (0 - 1)..5 }
    \cup { GrepStep(artifact_id, pattern, window, max_hits) :
               artifact_id \in {"a2", "a3"},
               pattern \in {"", "a", "aa", "zz"},
               window \in {0, 1},
               max_hits \in {MissingN, TextN, IntN(0), IntN(2), IntN(6)} }
    \cup { PStep("glimpse", <<>>, artifact_id, 2, <<>>) : artifact_id \in {"a1", "", "zz"} }
    \cup { PStep("select", <<"a1">>, "", 0, <<>>) }

\* the programs of one or two of these steps
GlimpsePrograms ==
    { <<s>> : s \in GlimpseSteps }
    \cup { <<s, t>> : s \in GlimpseSteps, t \in GlimpseSteps }

GlimpseInit ==
    /\ pe_in \in GlimpsePrograms
    /\ pe_pc = "call"
    /\ pe_out = PipeState0

(***************************************************************************)
(* A program of select steps in both executors: ProgramExecutor.execute    *)
(* (services/executor.py) and PipelineExecutor.execute.                    *)
(***************************************************************************)
\* select steps: well-formed, with an empty or non-string id at the first or
\* a later position, and with a selected_ids that is no list
SelectSteps ==
    { PStep("select", ids, "", 0, <<>>) :
          ids \in { <<"a1">>, <<"a2", "a1">>, <<>>, <<"a1", "">>, <<"", "a2">>,
                    <<"a3", NonStringId>>, <<NonStringId>> } }
    \cup { [action |-> "select", selected_ids |-> <<>>, artifact_id |-> "", n |-> 0,
            subcalls |-> <<>>, shape |-> "ids_not_list"] }

SelectPrograms ==
    { <<s>> : s \in SelectSteps }
    \cup { <<s, t>> : s \in SelectSteps, t \in SelectSteps }
    \cup { <<s, t, u>> : s \in SelectSteps, t \in SelectSteps, u \in SelectSteps }

\* DEFAULT_LIMITS of program_runner.py
SelectExecLimits ==
    [max_steps |-> 16, max_subcalls |-> 24, max_depth |-> 4, max_event_errors |-> 2]

NoExecution == [ran |-> FALSE, selected_ids |-> <<>>, events |-> <<>>]

SelectExecInit ==
    /\ sx_in \in SelectPrograms
    /\ sx_out = [program_executor |-> NoExecution, pipeline_executor |-> NoExecution]

SelectExecIdle ==
    /\ sx_in = <<>>
    /\ sx_out = [program_executor |-> NoExecution, pipeline_executor |-> NoExecution]

\* ProgramExecutor(limits).execute(program)
SxProgramExecutor ==
    /\ sx_in # <<>>
    /\ ~sx_out.program_executor.ran
    /\ LET result == execute(sx_in, SelectExecLimits)
       IN sx_out' = [sx_out EXCEPT !.program_executor =
                        [ran |-> TRUE, selected_ids |-> result.selected_ids,
                         events |-> result.events]]
    /\ UNCHANGED sx_in
    /\ UNCHANGED <<postVars, asmVars, runVars, exVars, rqVars, lcVars, vlVars, peVars, adVars, jdVars>>

\* PipelineExecutor().execute({"steps": program}, None, {})
SxPipelineExecutor ==
    /\ sx_in # <<>>
    /\ ~sx_out.pipeline_executor.ran
    /\ LET result == PipelineExecute([kind |-> "dict_steps", steps |-> sx_in],
                                     PipeStore, <<>>)
       IN sx_out' = [sx_out EXCEPT !.pipeline_executor =
                        [ran |-> TRUE, selected_ids |-> result.selected_ids,
                         events |-> result.events]]
    /\ UNCHANGED sx_in
    /\ UNCHANGED <<postVars, asmVars, runVars, exVars, rqVars, lcVars, vlVars, peVars, adVars, jdVars>>

(***************************************************************************)
(* assemble_decisions (services/assembly.py) as a function of candidates,  *)
(* the decisions of the rounds in order, budget and drop_pinned.  Scores   *)
(* are whole numbers; a decision's action is already stripped and lower    *)
(* case, "" stands for a missing "decision"/"action" key.                  *)
(***************************************************************************)
MaxDecisions == 2
MaxBudget == 3

_DROP_DECISIONS == {"drop", "reject", "no", "false", "exclude"}

\* _coerce_float
_coerce_float(value, default) == IF value.kind = "int" THEN value.v ELSE default

\* the "include" key of a decision
NoInclude == [present |-> FALSE, value |-> FALSE]
Include(b) == [present |-> TRUE, value |-> b]

\* one decision of a round
ADecision(artifact_id, action, include, score) ==
    [artifact_id |-> artifact_id, decision |-> action, include |-> include, score |-> score]

\* _decision_include
_decision_include(decision) ==
    IF decision.include.present THEN decision.include.value
    ELSE IF decision.decision # "" THEN decision.decision \notin _DROP_DECISIONS
    ELSE TRUE

\* aggregated = {}
NoAggregated == [x \in {} |-> 0]

\* lines 33-42: one pass of the loop of aggregate_decisions
AggregateStep(aggregated, decision) ==
    LET id == decision.artifact_id
        has == id \in DOMAIN aggregated
        incoming_score == _coerce_float(decision.score, 0)
        current_score == IF has THEN _coerce_float(aggregated[id].score, incoming_score)
                         ELSE incoming_score
        \* current.update(decision): the keys the decision holds
        action == IF decision.decision # "" THEN decision.decision
                  ELSE IF has THEN aggregated[id].decision ELSE ""
        updated == IF decision.include.present THEN decision.include
                   ELSE IF has THEN aggregated[id].include ELSE NoInclude
        \* current.get("include", _decision_include(decision))
        include == IF updated.present THEN updated.value ELSE _decision_include(decision)
        current == [artifact_id |-> id, decision |-> action, include |-> Include(include),
                    score |-> IntN(Max2(current_score, incoming_score))]
    IN IF id = "" THEN aggregated
       ELSE [x \in DOMAIN aggregated \cup {id} |-> IF x = id THEN current ELSE aggregated[x]]

RECURSIVE AggregateFrom(_, _)
AggregateFrom(aggregated, decisions) ==
    IF decisions = <<>> THEN aggregated
    ELSE AggregateFrom(AggregateStep(aggregated, Head(decisions)), Tail(decisions))

aggregate_decisions(decisions) == AggregateFrom(NoAggregated, decisions)

\* the key of _sorted_entries: (pinned, score, base_score, weight)
EntryKeyGreater(a, b) ==
    \/ BoolRank(a.pinned) > BoolRank(b.pinned)
    \/ /\ a.pinned = b.pinned
       /\ \/ a.score > b.score
          \/ /\ a.score = b.score
             /\ \/ a.base_score > b.base_score
                \/ /\ a.base_score = b.base_score
                   /\ a.weight > b.weight

RECURSIVE InsertEntry(_, _)
InsertEntry(sorted, e) ==
    IF sorted = <<>> THEN <<e>>
    ELSE IF EntryKeyGreater(e, Head(sorted)) THEN <<e>> \o sorted
    ELSE <<Head(sorted)>> \o InsertEntry(Tail(sorted), e)

RECURSIVE SortEntriesFrom(_, _)
SortEntriesFrom(done, rest) ==
    IF rest = <<>> THEN done
    ELSE SortEntriesFrom(InsertEntry(done, Head(rest)), Tail(rest))

\* sorted(entries, key=..., reverse=True): stable
_sorted_entries(entries) == SortEntriesFrom(<<>>, entries)

\* a pinned candidate is forced in also when drop_pinned is set
IsPinned_always(candidate, drop_pinned) == candidate.pinned

\* is_pinned = candidate.pinned and not drop_pinned
IsPinned(candidate, drop_pinned) == candidate.pinned /\ ~drop_pinned

\* lines 75-105: the entries of the candidates, the pinned ones (want_pinned)
\* or the ranked ones
RECURSIVE EntriesOf(_, _, _, _)
EntriesOf(candidates, aggregated, drop_pinned, want_pinned) ==
    IF candidates = <<>> THEN <<>>
    ELSE LET candidate == Head(candidates)
             has == candidate.artifact_id \in DOMAIN aggregated
             is_pinned == IsPinned(candidate, drop_pinned)
             include == is_pinned
                          \/ (IF has THEN _decision_include(aggregated[candidate.artifact_id])
                              ELSE TRUE)
             entry == [artifact_id |-> candidate.artifact_id,
                       pinned |-> candidate.pinned,
                       weight |-> candidate.weight,
                       base_score |-> candidate.base_score,
                       score |-> IF has
                                 THEN _coerce_float(aggregated[candidate.artifact_id].score,
                                                    candidate.base_score)
                                 ELSE candidate.base_score]
             rest == EntriesOf(Tail(candidates), aggregated, drop_pinned, want_pinned)
         IN IF (~has /\ ~is_pinned) \/ ~include \/ is_pinned # want_pinned
            THEN rest
            ELSE <<entry>> \o rest

assemble_decisions(candidates, decisions, budget, drop_pinned) ==
    LET aggregated == aggregate_decisions(decisions)
        pinned_entries == _sorted_entries(EntriesOf(candidates, aggregated, drop_pinned, TRUE))
        ranked_entries == _sorted_entries(EntriesOf(candidates, aggregated, drop_pinned, FALSE))
        budget0 == IF budget < 0 THEN 0 ELSE budget
        remaining == IF pinned_entries # <<>>
                     THEN Max2(budget0 - Len(pinned_entries), 0)
                     ELSE budget0
    IN [selected |-> pinned_entries \o Take(ranked_entries, remaining),
        aggregated |-> aggregated,
        budget |-> budget0,
        drop_pinned |-> drop_pinned]

\* the decisions a round may hold: for a1 with an action, an explicit include or
\* neither, with or without a score; for a2 a keep or a drop; one decision
\* without artifact_id
DecisionValues ==
    { ADecision("a1", action, NoInclude, score) :
          action \in {"keep", "drop", ""}, score \in {MissingN, IntN(1), IntN(5)} }
    \cup { ADecision("a1", "", Include(b), score) :
          b \in BOOLEAN, score \in {MissingN, IntN(1), IntN(5)} }
    \cup { ADecision("a2", action, NoInclude, IntN(2)) : action \in {"keep", "drop"} }
    \cup { ADecision("", "keep", NoInclude, IntN(5)) }

RECURSIVE DecisionsOfLen(_)
DecisionsOfLen(n) ==
    IF n = 0 THEN {<<>>}
    ELSE { Append(ds, d) : ds \in DecisionsOfLen(n - 1), d \in DecisionValues }

DecisionLists == UNION { DecisionsOfLen(n) : n \in 0..MaxDecisions }

\* a1 and a3 pinned or not, a2 never; no decision names a3
AssembleCandidates ==
    { << Candidate("a1", p1, 1, 0, 1), Candidate("a2", FALSE, 1, 0, 2),
         Candidate("a3", p3, 1, 0, 3) >> : p1, p3 \in BOOLEAN }

AssembleInputs ==
    [candidates : AssembleCandidates,
     decisions : DecisionLists,
     budget : (0 - 1)..MaxBudget,
     drop_pinned : BOOLEAN]

NoAssembly == [done |-> FALSE, selected |-> <<>>, aggregated |-> NoAggregated,
               budget |-> 0, drop_pinned |-> FALSE]

AssembleInit ==
    /\ ad_in \in AssembleInputs
    /\ ad_out = NoAssembly

AssembleIdle ==
    /\ ad_in = [candidates |-> <<>>, decisions |-> <<>>, budget |-> 0, drop_pinned |-> FALSE]
    /\ ad_out = [NoAssembly EXCEPT !.done = TRUE]

AssembleDecisions ==
    /\ ~ad_out.done
    /\ ad_out' = [done |-> TRUE] @@ assemble_decisions(ad_in.candidates, ad_in.decisions,
                                                       ad_in.budget, ad_in.drop_pinned)
    /\ UNCHANGED ad_in
    /\ UNCHANGED <<postVars, asmVars, runVars, exVars, rqVars, lcVars, vlVars, peVars,
                   sxVars, jdVars>>

(***************************************************************************)
(* run_llm_judge (services/judge.py): one action per judge call and one    *)
(* for the end of a round.  A judge call returns a payload that parses,    *)
(* returns one that parse_plan / parse_decision rejects, or raises.        *)
(***************************************************************************)
MaxCallsBound == 3
MaxFailuresBound == 2
MaxTopK == 2

JudgeOutcomes == {"ok", "unparsable", "raises"}

\* key (pinned, base_score)
JudgeKeyGreater(a, b) ==
    \/ BoolRank(a.pinned) > BoolRank(b.pinned)
    \/ a.pinned = b.pinned /\ a.base_score > b.base_score

RECURSIVE JudgeInsert(_, _)
JudgeInsert(sorted, c) ==
    IF sorted = <<>> THEN <<c>>
    ELSE IF JudgeKeyGreater(c, Head(sorted)) THEN <<c>> \o sorted
    ELSE <<Head(sorted)>> \o JudgeInsert(Tail(sorted), c)

RECURSIVE JudgeSort(_, _)
JudgeSort(done, rest) ==
    IF rest = <<>> THEN done
    ELSE JudgeSort(JudgeInsert(done, Head(rest)), Tail(rest))

\* deterministic_fallback_assemble, top_k >= 0
deterministic_fallback_assemble(candidates, top_k) ==
    LET sorted_candidates == Take(JudgeSort(<<>>, candidates), top_k)
    IN [mode |-> "deterministic",
        selected_ids |-> [i \in DOMAIN sorted_candidates |->
                              sorted_candidates[i].artifact_id]]

\* fallback=None
NoFallback == [mode |-> "none", selected_ids |-> <<>>]

JudgeCandidates ==
    << Candidate("a1", FALSE, 1, 0, 1), Candidate("a2", TRUE, 1, 0, 2),
       Candidate("a3", FALSE, 1, 0, 3) >>

JudgeInputs ==
    [max_llm_calls : 0..MaxCallsBound,
     max_consecutive_failures : 1..MaxFailuresBound,
     fallback_top_k : 0..MaxTopK]

\* JudgeRound()
NewRound == [plan |-> FALSE, decision |-> FALSE, errors |-> <<>>]

\* the locals; invocations counts the judge.plan and judge.decision calls made
JudgeState0 ==
    [rounds |-> <<>>, consecutive_failures |-> 0, llm_calls |-> 0, invocations |-> 0,
     round_result |-> NewRound]

NoJudgeResult == [rounds |-> <<>>, degraded |-> FALSE, fallback |-> NoFallback]

JudgeInit ==
    /\ jd_in \in JudgeInputs
    /\ jd_pc = "start"
    /\ jd_st = JudgeState0
    /\ jd_out = NoJudgeResult

JudgeIdle ==
    /\ jd_in = [max_llm_calls |-> 0, max_consecutive_failures |-> 1, fallback_top_k |-> 0]
    /\ jd_pc = "idle"
    /\ jd_st = JudgeState0
    /\ jd_out = NoJudgeResult

JudgeFrame ==
    UNCHANGED <<postVars, asmVars, runVars, exVars, rqVars, lcVars, vlVars, peVars,
                sxVars, adVars>>

Degraded(rounds) ==
    [rounds |-> rounds, degraded |-> TRUE,
     fallback |-> deterministic_fallback_assemble(JudgeCandidates, jd_in.fallback_top_k)]

\* lines 49-53
JudgeStart ==
    /\ jd_pc = "start"
    /\ IF jd_in.max_llm_calls <= 0
       THEN /\ jd_out' = Degraded(<<>>)
            /\ jd_pc' = "returned"
       ELSE /\ jd_pc' = "plan"
            /\ UNCHANGED jd_out
    /\ UNCHANGED <<jd_in, jd_st>>
    /\ JudgeFrame

\* llm_calls += 1 follows the call inside the try block
CountCall(llm_calls, outcome) == IF outcome = "raises" THEN llm_calls ELSE llm_calls + 1

\* lines 54-65: judge.plan and parse_plan
JudgePlan ==
    /\ jd_pc = "plan"
    /\ \E outcome \in JudgeOutcomes :
         LET llm_calls == CountCall(jd_st.llm_calls, outcome)
             ok == outcome = "ok"
         IN /\ jd_st' = [jd_st EXCEPT
                           !.invocations = @ + 1,
                           !.llm_calls = llm_calls,
                           !.round_result =
                               [plan |-> ok, decision |-> FALSE,
                                errors |-> IF ok THEN <<>> ELSE <<"plan_parse_failed">>],
                           !.consecutive_failures = IF ok THEN @ ELSE @ + 1]
            /\ jd_pc' = IF ok /\ llm_calls < jd_in.max_llm_calls THEN "decision" ELSE "after"
    /\ UNCHANGED <<jd_in, jd_out>>
    /\ JudgeFrame

\* lines 65-73: judge.decision and parse_decision
JudgeDecision ==
    /\ jd_pc = "decision"
    /\ \E outcome \in JudgeOutcomes :
         LET ok == outcome = "ok"
         IN jd_st' = [jd_st EXCEPT
                        !.invocations = @ + 1,
                        !.llm_calls = CountCall(@, outcome),
                        !.round_result.decision = ok,
                        !.round_result.errors =
                            IF ok THEN @ ELSE Append(@, "decision_parse_failed"),
                        !.consecutive_failures = IF ok THEN 0 ELSE @ + 1]
    /\ jd_pc' = "after"
    /\ UNCHANGED <<jd_in, jd_out>>
    /\ JudgeFrame

\* lines 75-88: the round is recorded; return, or the next round
JudgeAfter ==
    /\ jd_pc = "after"
    /\ LET rounds == Append(jd_st.rounds, jd_st.round_result)
       IN /\ jd_st' = [jd_st EXCEPT !.rounds = rounds, !.round_result = NewRound]
          /\ IF jd_st.consecutive_failures >= jd_in.max_consecutive_failures
             THEN jd_out' = Degraded(rounds) /\ jd_pc' = "returned"
             ELSE IF jd_st.round_result.decision
             THEN /\ jd_out' = [rounds |-> rounds, degraded |-> FALSE, fallback |-> NoFallback]
                  /\ jd_pc' = "returned"
             ELSE IF jd_st.llm_calls >= jd_in.max_llm_calls
             THEN jd_out' = Degraded(rounds) /\ jd_pc' = "returned"
             ELSE jd_pc' = "plan" /\ UNCHANGED jd_out
    /\ UNCHANGED jd_in
    /\ JudgeFrame

FnIdle ==
    /\ RetrieveIdle /\ ParseIdle /\ PipeIdle /\ SelectExecIdle
    /\ AssembleIdle /\ JudgeIdle

(***************************************************************************)
(* Specifications.                                                         *)
(***************************************************************************)
InitPost == PostInit /\ AsmIdle /\ RunIdle /\ ExamineIdle /\ RequestIdle /\ FnIdle
NextPost == PostLoopEnd \/ PostAttempt
SpecPost == InitPost /\ [][NextPost]_vars

InitAsm == AsmInit /\ PostIdle /\ RunIdle /\ ExamineIdle /\ RequestIdle /\ FnIdle
NextAsm == AsmRunProgram
SpecAsm == InitAsm /\ [][NextAsm]_vars

InitRun == RunInit /\ PostIdle /\ AsmIdle /\ ExamineIdle /\ RequestIdle /\ FnIdle
NextRun == RunSetup \/ RunPlan \/ RunPersist \/ RunTrace \/ RunExamine \/ RunDecision
           \/ RunReturn
SpecRun == InitRun /\ [][NextRun]_vars

\* the inputs that decide which rounds run and how they end; the store, the
\* candidates, options.limits and options.final_answer are held fixed
FairRunInputs ==
    { in \in
        [ query : {"what is this?"},
          rootlm_backend : {"mock", "vllm"},
          vllm_missing : {"", "VLLM_BASE_URL", "VLLM_MODEL"},
          rootlm_arg : {"none", "raising"},
          policy_scalar : BOOLEAN,
          program : RunProgramOptions,
          limits : {NoLimits},
          executor_backend : {"mock", "real"},
          pipeline_loaded : BOOLEAN,
          vars_scalar : BOOLEAN,
          glimpses_meta_scalar : BOOLEAN,
          executor_status : {NoneStr, "error", "degraded"},
          mock_payload : BOOLEAN,
          citations : {AbsentList, ScalarValue},
          final_answer : {NoneStr},
          candidates : {<<RunCandidate>>},
          store : {[a1 |-> "Full content"]} ] :
        in \in RunInputs }

\* run_rlm is one sequential function: when every backend, store and executor
\* call returns or raises, the block after it runs
InitFairRun ==
    /\ run_in \in FairRunInputs
    /\ RunInit /\ PostIdle /\ AsmIdle /\ ExamineIdle /\ RequestIdle /\ FnIdle
FairSpecRun == InitFairRun /\ [][NextRun]_vars /\ WF_vars(NextRun)

\* both executors side by side on select programs: run_program on every
\* well-shaped list program under the widest limits, run_rlm with the pipeline
\* executor and backends that return
\* the list programs of well-shaped steps, with fallback_top_k = 2
SelectAsmOptions ==
    { o \in [program : RawPrograms, fallback_top_k : {2}] :
          o.program.kind = "list" /\ ~IllShaped(o.program) }

\* the runs on the pipeline executor with the Mock root-LM and options that do
\* not make a round raise
SelectRunInputs ==
    { in \in RunInputs :
          /\ in.executor_backend = "real" /\ in.pipeline_loaded
          /\ in.rootlm_backend = "mock" /\ in.rootlm_arg = "none"
          /\ ~in.policy_scalar /\ ~in.vars_scalar /\ ~in.glimpses_meta_scalar
          /\ in.citations = AbsentList /\ in.final_answer = NoneStr
          /\ in.store = [a1 |-> "Full content"] }

InitSelect ==
    /\ run_in \in SelectRunInputs
    /\ asm_options \in SelectAsmOptions
    /\ asm_limits = [max_steps |-> MaxNodes, max_subcalls |-> MaxLimit,
                     max_depth |-> MaxLimit, max_event_errors |-> MaxLimit,
                     max_program_chars |-> DefaultMaxProgramChars]
    /\ AsmInit
    /\ RunInit
    /\ PostIdle
    /\ ExamineIdle
    /\ RequestIdle
    /\ FnIdle
NextSelect == NextAsm \/ NextRun
SpecSelect == InitSelect /\ [][NextSelect]_vars

InitExamine == ExamineInit /\ PostIdle /\ AsmIdle /\ RunIdle /\ RequestIdle /\ FnIdle
NextExamine == \E c \in Callers : ExamineStart(c) \/ ExamineFetch(c)
SpecExamine == InitExamine /\ [][NextExamine]_vars

InitService == RequestInit /\ PostIdle /\ AsmIdle /\ RunIdle /\ ExamineIdle /\ FnIdle
NextService ==
    \E t \in Requests :
        \/ RqService(t) \/ RqSetup(t) \/ RqPlan(t) \/ RqExamine(t) \/ RqDecision(t)
        \/ RqPersist(t) \/ RqTrace(t) \/ RqReturn(t)
SpecService == InitService /\ [][NextService]_vars

InitRetrieve ==
    /\ SelectExecIdle /\ AssembleIdle /\ JudgeIdle
    /\ RetrieveInit /\ ParseIdle /\ PipeIdle
    /\ PostIdle /\ AsmIdle /\ RunIdle /\ ExamineIdle /\ RequestIdle
NextRetrieve == ListCandidates
SpecRetrieve == InitRetrieve /\ [][NextRetrieve]_vars

InitParse ==
    /\ SelectExecIdle /\ AssembleIdle /\ JudgeIdle
    /\ ParseInit /\ RetrieveIdle /\ PipeIdle
    /\ PostIdle /\ AsmIdle /\ RunIdle /\ ExamineIdle /\ RequestIdle
NextParse == VllmReturn
SpecParse == InitParse /\ [][NextParse]_vars

InitPipe ==
    /\ SelectExecIdle /\ AssembleIdle /\ JudgeIdle
    /\ PipeInit /\ RetrieveIdle /\ ParseIdle
    /\ PostIdle /\ AsmIdle /\ RunIdle /\ ExamineIdle /\ RequestIdle
NextPipe == PipeExecute
SpecPipe == InitPipe /\ [][NextPipe]_vars

InitGlimpse ==
    /\ SelectExecIdle /\ AssembleIdle /\ JudgeIdle
    /\ GlimpseInit /\ RetrieveIdle /\ ParseIdle
    /\ PostIdle /\ AsmIdle /\ RunIdle /\ ExamineIdle /\ RequestIdle
SpecGlimpse == InitGlimpse /\ [][NextPipe]_vars

InitSelectExec ==
    /\ SelectExecInit /\ AssembleIdle /\ JudgeIdle
    /\ RetrieveIdle /\ ParseIdle /\ PipeIdle
    /\ PostIdle /\ AsmIdle /\ RunIdle /\ ExamineIdle /\ RequestIdle
NextSelectExec == SxProgramExecutor \/ SxPipelineExecutor
SpecSelectExec == InitSelectExec /\ [][NextSelectExec]_vars

InitAssemble ==
    /\ AssembleInit /\ JudgeIdle
    /\ RetrieveIdle /\ ParseIdle /\ PipeIdle /\ SelectExecIdle
    /\ PostIdle /\ AsmIdle /\ RunIdle /\ ExamineIdle /\ RequestIdle
NextAssemble == AssembleDecisions
SpecAssemble == InitAssemble /\ [][NextAssemble]_vars

InitJudge ==
    /\ JudgeInit /\ AssembleIdle
    /\ RetrieveIdle /\ ParseIdle /\ PipeIdle /\ SelectExecIdle
    /\ PostIdle /\ AsmIdle /\ RunIdle /\ ExamineIdle /\ RequestIdle
NextJudge == JudgeStart \/ JudgePlan \/ JudgeDecision \/ JudgeAfter
SpecJudge == InitJudge /\ [][NextJudge]_vars

(***************************************************************************)
(* Claims about run_rlm.                                                   *)
(***************************************************************************)
HasStage(errs, stage) == \E i \in DOMAIN errs : errs[i].stage = stage
Called(op) == \E i \in DOMAIN calls : calls[i].op = op
CallRaised(op) == \E i \in DOMAIN calls : calls[i].op = op /\ calls[i].raised
GenerateFinalCalled == Called("generate_final:vllm") \/ Called("generate_final:mock")

\* C1: every persisted snapshot and the returned result have a non-empty errors
\* list whenever their status is "error".
C1_ErrorStatusHasErrors ==
    /\ \A i \in DOMAIN snapshots :
         snapshots[i].status = "error" => snapshots[i].errors # <<>>
    /\ (run_result.returned /\ run_result.status = "error") => rlm_errors # <<>>

\* C2: every persisted snapshot with status "ok" has an empty errors list.
C2_OkStatusHasNoErrors ==
    \A i \in DOMAIN snapshots :
        snapshots[i].status = "ok" => snapshots[i].errors = <<>>

\* C3: update_run_payload is called exactly once after each round entered, the
\* i-th call after round i; a returned run that ended in round k has made k
\* calls and its last snapshot agrees with the RunResult on status, program,
\* glimpses, subcalls, final_answer and citations.
C3_PersistOncePerRound ==
    /\ Len(snapshots) = (IF run_pc = "persist" THEN rlm_round - 1 ELSE rlm_round)
    /\ \A i \in DOMAIN snapshots : snapshots[i].round = i
    /\ run_result.returned =>
         /\ rlm_round \in 1..3
         /\ Len(snapshots) = rlm_round
         /\ LET last == snapshots[Len(snapshots)]
            IN /\ last.status = run_result.status
               /\ last.program = run_result.program
               /\ last.glimpses = run_result.glimpses
               /\ last.subcalls = run_result.subcalls
               /\ last.final_answer = run_result.final_answer
               /\ last.citations = run_result.citations

\* a returned run that went through the three rounds with glimpses and an answer
C3_Witness ==
    /\ run_result.returned
    /\ rlm_round = 3
    /\ Len(snapshots) = 3
    /\ run_result.final_answer # NoneStr
    /\ run_result.glimpses # <<>>

\* C4: once generate_program has raised, the executor and generate_final are
\* never called and the run only persists, traces and returns; once the executor
\* has raised, generate_final is never called and the run only persists, traces
\* and returns. The returned run has status "error", an errors entry of that
\* round's stage, a null final_answer and no citations.
C4_ErrorIsolation ==
    /\ CallRaised("generate_program") =>
         /\ ~Called("execute") /\ ~GenerateFinalCalled
         /\ run_pc \in {"persist", "trace", "return", "done"}
         /\ rlm_round = 1
         /\ run_result.returned =>
              /\ run_result.status = "error"
              /\ HasStage(rlm_errors, "round1")
              /\ run_result.final_answer = NoneStr
              /\ run_result.citations = <<>>
    /\ CallRaised("execute") =>
         /\ ~GenerateFinalCalled
         /\ run_pc \in {"persist", "trace", "return", "done"}
         /\ rlm_round = 2
         /\ run_result.returned =>
              /\ run_result.status = "error"
              /\ HasStage(rlm_errors, "round2")
              /\ run_result.final_answer = NoneStr
              /\ run_result.citations = <<>>

\* the run returned after the executor raised
C4_Witness ==
    /\ run_result.returned
    /\ CallRaised("execute")
    /\ rlm_executor = "real"

\* C5: when the Decision round raised, the third snapshot has the program,
\* events, glimpses, glimpses_meta and subcalls of the second one.
C5_DecisionFailureKeepsExamine ==
    (Len(snapshots) = 3 /\ round_error # "") =>
        /\ snapshots[3].program = snapshots[2].program
        /\ snapshots[3].events = snapshots[2].events
        /\ snapshots[3].glimpses = snapshots[2].glimpses
        /\ snapshots[3].glimpses_meta = snapshots[2].glimpses_meta
        /\ snapshots[3].subcalls = snapshots[2].subcalls

\* the Decision round raised after an Examine round that produced events and
\* glimpses
C5_Witness ==
    /\ Len(snapshots) = 3
    /\ round_error # ""
    /\ snapshots[3].status = "error"
    /\ snapshots[2].events # <<>>
    /\ snapshots[2].glimpses # <<>>
    /\ snapshots[3].final # snapshots[2].final

\* the vllm backend was configured and could not deliver the final of a
\* Decision round that was entered
VllmCouldNotDeliver ==
    /\ run_in.rootlm_backend = "vllm"
    /\ rlm_round = 3
    /\ Called("generate_final:mock")

\* the prefix the fallback reason has for each way the vllm backend can fail
ExpectedReasonPrefix ==
    IF run_in.vllm_missing # "" THEN "vllm_missing_config"
    ELSE IF ~Called("generate_final:vllm") THEN "vllm_init_failed"
    ELSE "vllm_request_failed:"

ExpectedMockAnswer ==
    IF run_in.final_answer # NoneStr THEN run_in.final_answer
    ELSE "Mock answer for: " \o run_in.query

DegradedToMock ==
    /\ rlm_status = "ok"
    /\ rlm_final_answer = ExpectedMockAnswer
    /\ rlm_meta.round3.fallback_from = "vllm"
    /\ StartsWith(rlm_meta.round3.fallback_reason, ExpectedReasonPrefix)

AttemptIdx == {i \in DOMAIN post_log : post_log[i].ev = "attempt"}
SleepIdx == {i \in DOMAIN post_log : post_log[i].ev = "sleep"}

\* the failure kinds as the retry policy names them
FailedWithTimeout(out) == out.exc = "TimeoutError" \/ out.timed_out_text
FailedBelow500(out) == out.exc = "HTTPError" /\ out.code < 500
FailedServerOrNetwork(out) ==
    /\ ~FailedWithTimeout(out)
    /\ \/ out.exc = "HTTPError" /\ out.code >= 500
       \/ out.exc = "URLError"

\* C7: after an attempt that fails with a timeout or with an HTTP code below 500,
\* nothing more is logged (no attempt, no sleep), whatever max_retries is, and
\* the call has failed with the composite RuntimeError.
C7_NoRetryOnTimeoutOrClientError ==
    \A i \in AttemptIdx :
        (FailedWithTimeout(post_log[i].out) \/ FailedBelow500(post_log[i].out))
            => /\ i = Len(post_log)
               /\ post_pc = "raised"
               /\ last_error = post_log[i].out

C7_Witness ==
    /\ post_pc = "raised"
    /\ Len(post_log) = 3
    /\ attempt < max_retries
    /\ FailedBelow500(post_log[3].out)

\* C8: with max_retries = r >= 0, a call whose attempts all fail with a 5xx
\* response or a network error makes exactly r+1 attempts with one sleep between
\* consecutive attempts and none after the last, and then raises; a successful
\* attempt is the last entry and returns; no call makes more than r+1 attempts.
C8_BoundedRetries ==
    /\ (max_retries >= 0 /\ post_pc = "raised"
          /\ \A i \in AttemptIdx : FailedServerOrNetwork(post_log[i].out))
        => /\ Cardinality(AttemptIdx) = max_retries + 1
           /\ Cardinality(SleepIdx) = max_retries
           /\ Len(post_log) = 2 * max_retries + 1
           /\ \A i \in DOMAIN post_log :
                 post_log[i].ev = (IF i % 2 = 1 THEN "attempt" ELSE "sleep")
    /\ \A i \in AttemptIdx :
          post_log[i].out.exc = "none" => (i = Len(post_log) /\ post_pc = "returned")
    /\ post_pc = "returned" =>
          (post_log # <<>> /\ post_log[Len(post_log)].out.exc = "none"
             /\ post_log[Len(post_log)].ev = "attempt")
    /\ max_retries >= 0 => Cardinality(AttemptIdx) <= max_retries + 1

C8_Witness ==
    /\ post_pc = "raised"
    /\ max_retries = 2
    /\ Cardinality(AttemptIdx) = 3
    /\ \A i \in AttemptIdx : FailedServerOrNetwork(post_log[i].out)

\* C9: a further attempt follows only an attempt that failed with a 5xx response
\* or a network error; a timeout, a code below 500 or an undecodable body ends
\* the call.
C9_RetryOnlyOnServerOrNetwork ==
    \A i \in AttemptIdx :
        (\E j \in AttemptIdx : j > i) =>
            \/ post_log[i].out.exc = "HTTPError" /\ post_log[i].out.code >= 500
            \/ post_log[i].out.exc = "URLError"

(***************************************************************************)
(* Claims about run_program.                                               *)
(***************************************************************************)
\* the limits a program breaches, measured on the program itself
BreachedLimits(raw, lim) ==
    (IF _estimate_program_chars(raw) > lim.max_program_chars
     THEN {"max_program_chars"} ELSE {})
    \cup (IF NodeCount(raw.steps) > lim.max_steps THEN {"max_steps"} ELSE {})
    \cup (IF SubcallTotal(raw.steps) > lim.max_subcalls THEN {"max_subcalls"} ELSE {})
    \cup (IF Depth(raw.steps) > lim.max_depth THEN {"max_depth"} ELSE {})

AsmBreached == BreachedLimits(asm_options.program, asm_limits)

\* C10: a program that breaches max_program_chars, max_steps, max_subcalls or
\* max_depth ends run_program with status "stopped", an empty assembled_context,
\* exactly one error, of type limit_exceeded and naming a breached limit, and no
\* event (no step was executed); a program that breaches none never gets a
\* limit_exceeded error from the executor.
C10_LimitBreachStopsBeforeExecution ==
    asm_pc = "returned" =>
        /\ AsmBreached # {} =>
              /\ asm_outcome.status = "stopped"
              /\ asm_outcome.assembled_context = EmptyContext
              /\ Len(asm_outcome.errors) = 1
              /\ asm_outcome.errors[1].type = "limit_exceeded"
              /\ asm_outcome.errors[1].limit \in AsmBreached
              /\ asm_outcome.events = <<>>
              /\ ~asm_outcome.degraded
        /\ AsmBreached = {} =>
              \A i \in DOMAIN asm_outcome.errors :
                  asm_outcome.errors[i].type # "limit_exceeded"

C10_Witness ==
    /\ asm_pc = "returned"
    /\ AsmBreached = {"max_depth"}
    /\ asm_outcome.status = "stopped"
    /\ asm_outcome.errors[1].limit = "max_depth"

AsmFallback ==
    deterministic_fallback(asm_index, _clamp_int(asm_options.fallback_top_k, 5, 1, 200))

\* C11: for an ill-shaped options.program (that breaches no limit) run_program
\* returns, with status "degraded", exactly one error, of type
\* program_parse_failed, the deterministic fallback as assembled_context and no
\* events; no exception leaves run_program.
C11_IllShapedProgramDegrades ==
    (asm_pc \in {"returned", "raised"} /\ IllShaped(asm_options.program)
       /\ AsmBreached = {}) =>
        /\ asm_pc = "returned"
        /\ asm_outcome.status = "degraded"
        /\ asm_outcome.degraded
        /\ Len(asm_outcome.errors) = 1
        /\ asm_outcome.errors[1].type = "program_parse_failed"
        /\ asm_outcome.assembled_context = AsmFallback
        /\ asm_outcome.events = <<>>

\* the steps of a program in the order of a pre-order descent into subcalls
RECURSIVE PreOrder(_)
PreOrder(steps) ==
    IF steps = <<>> THEN <<>>
    ELSE <<Head(steps)>> \o PreOrder(Head(steps).subcalls) \o PreOrder(Tail(steps))

\* a step the executor cannot execute
StepFails(step) ==
    \/ step.action \notin {"select", "noop"}
    \/ step.action = "select"
         /\ \E i \in DOMAIN step.selected_ids : step.selected_ids[i] = ""

FailCount(seq, k) == Cardinality({ i \in 1..k : StepFails(seq[i]) })

\* the number of steps executed when the executor stops as soon as more than e
\* steps have failed
ExecutedCount(seq, e) ==
    IF \E k \in 1..Len(seq) : FailCount(seq, k) > e
    THEN CHOOSE k \in 1..Len(seq) :
             FailCount(seq, k) > e /\ \A j \in 1..(k - 1) : FailCount(seq, j) <= e
    ELSE Len(seq)

\* run_program returned for a well-shaped program within all limits
AsmExecuted ==
    /\ asm_pc = "returned"
    /\ ~IllShaped(asm_options.program)
    /\ AsmBreached = {}

AsmSteps == PreOrder(asm_options.program.steps)
AsmExecutedCount == ExecutedCount(AsmSteps, asm_limits.max_event_errors)
AsmThresholdHit == FailCount(AsmSteps, Len(AsmSteps)) > asm_limits.max_event_errors

ErrorsOfType(errs, type) == { i \in DOMAIN errs : errs[i].type = type }

\* C12: the executor executes the steps in pre-order until more than
\* max_event_errors of them have failed and none after that; every failed step
\* executed has one error event and one event_error entry; when the threshold is
\* passed the last error is event_error_threshold and run_program returns
\* "degraded" with the deterministic fallback, otherwise all steps are executed
\* and no event_error_threshold is recorded.
C12_ErrorThresholdStopsExecution ==
    AsmExecuted =>
        LET n == AsmExecutedCount
            failed == { i \in 1..n : StepFails(AsmSteps[i]) }
        IN /\ Len(asm_outcome.events) = n
           /\ \A i \in 1..n :
                 /\ asm_outcome.events[i].step = i
                 /\ asm_outcome.events[i].action = AsmSteps[i].action
                 /\ (asm_outcome.events[i].status = "error") = (i \in failed)
           /\ Cardinality(ErrorsOfType(asm_outcome.errors, "event_error"))
                 = Cardinality(failed)
           /\ \A i \in failed : \E j \in DOMAIN asm_outcome.errors :
                 /\ asm_outcome.errors[j].type = "event_error"
                 /\ asm_outcome.errors[j].step = i
           /\ IF AsmThresholdHit
              THEN /\ Len(asm_outcome.errors) = Cardinality(failed) + 1
                   /\ asm_outcome.errors[Len(asm_outcome.errors)].type
                         = "event_error_threshold"
                   /\ asm_outcome.status = "degraded"
                   /\ asm_outcome.degraded
                   /\ asm_outcome.assembled_context = AsmFallback
              ELSE /\ n = Len(AsmSteps)
                   /\ Len(asm_outcome.errors) = Cardinality(failed)
                   /\ asm_outcome.status = "ok"

\* the threshold was passed before the last step: a step was left unexecuted
C12_Witness ==
    /\ AsmExecuted
    /\ AsmThresholdHit
    /\ Len(asm_outcome.events) < Len(AsmSteps)
    /\ asm_outcome.status = "degraded"

(***************************************************************************)
(* Claims about both executors.                                            *)
(***************************************************************************)
\* the ids of the select steps that have an ok event, in the order of the events
RECURSIVE OkSelectStream(_, _)
OkSelectStream(evs, steps) ==
    IF evs = <<>> THEN <<>>
    ELSE (IF Head(evs).action = "select" /\ Head(evs).status = "ok"
          THEN steps[Head(evs).step].selected_ids ELSE <<>>)
         \o OkSelectStream(Tail(evs), steps)

FirstIndex(stream, x) ==
    CHOOSE k \in DOMAIN stream : stream[k] = x /\ \A l \in 1..(k - 1) : stream[l] # x

\* out holds every element of stream exactly once, in the order of first occurrence
FirstSeenOrder(out, stream) ==
    /\ \A i, j \in DOMAIN out : i # j => out[i] # out[j]
    /\ { out[i] : i \in DOMAIN out } = { stream[k] : k \in DOMAIN stream }
    /\ \A i, j \in DOMAIN out :
          i < j => FirstIndex(stream, out[i]) < FirstIndex(stream, out[j])

NumberedInOrder(evs, steps) ==
    /\ evs # <<>> => evs[1].step = 1
    /\ \A i, j \in DOMAIN evs : i < j => evs[i].step < evs[j].step
    /\ \A i \in DOMAIN evs :
          /\ evs[i].step \in DOMAIN steps
          /\ evs[i].action = steps[evs[i].step].action
          /\ evs[i].status \in {"ok", "error"}

PipelineExamined == rlm_round >= 2 /\ rlm_executor = "real" /\ ~CallRaised("execute")

\* C15: the pipeline executor executes the steps nested under subcalls, numbered
\* after their parent: the events are those of the program's pre-order.
C15_PipelineDescendsIntoSubcalls ==
    PipelineExamined =>
        LET pre == PreOrder(_extract_steps(rlm_program))
        IN /\ Len(rlm_events) = Len(pre)
           /\ \A i \in DOMAIN rlm_events :
                 /\ rlm_events[i].step = i
                 /\ rlm_events[i].action = pre[i].action

\* C16: with options.limits given, the executor of the run executes at most
\* limits.max_steps steps and at most one step after limits.max_event_errors
\* steps have failed.
C16_OptionsLimitsBoundExecution ==
    (rlm_round >= 2 /\ ~CallRaised("execute") /\ run_in.limits # NoLimits) =>
        /\ Len(rlm_events) <= run_in.limits.max_steps
        /\ Cardinality({ i \in DOMAIN rlm_events : rlm_events[i].status = "error" })
              <= run_in.limits.max_event_errors + 1

\* a is a prefix of b
IsPrefix(a, b) == Len(a) <= Len(b) /\ SubSeq(b, 1, Len(a)) = a

\* the list-valued fields of a row of rlm_runs
ListFieldsPrefix(early, late) ==
    /\ IsPrefix(early.events, late.events)
    /\ IsPrefix(early.glimpses, late.glimpses)
    /\ IsPrefix(early.glimpses_meta, late.glimpses_meta)
    /\ IsPrefix(early.subcalls, late.subcalls)
    /\ IsPrefix(early.evidence, late.evidence)
    /\ IsPrefix(early.citations, late.citations)
    /\ IsPrefix(early.errors, late.errors)

\* C17: every list-valued field of an earlier snapshot of a run is a prefix of
\* the same field in every later snapshot of that run.
C17_SnapshotsGrowAppendOnly ==
    \A i, j \in DOMAIN snapshots :
        i < j => ListFieldsPrefix(snapshots[i], snapshots[j])

\* the lines of the rounds in a trace, without the error lines
RoundLines(t) == SelectSeq(t, LAMBDA line : line.stage # "error")

\* the last entry of errors is the one of round r
LastErrorOfRound(errs, r) ==
    /\ errs # <<>>
    /\ errs[Len(errs)].stage = CASE r = 1 -> "round1" [] r = 2 -> "round2" [] OTHER -> "round3"

\* C18: the trace holds one line per persisted round in the order plan, examine,
\* decision; an error line comes only directly after the line of a round that
\* raised, is the last line, and every traced round that raised has it; the line
\* of a round is written after the round's snapshot and before the next round.
C18_TraceFollowsPersistedRounds ==
    LET lines == RoundLines(trace)
    IN /\ \A i \in DOMAIN lines : lines[i].stage = StageOf(i)
       /\ Len(lines) = IF run_pc = "trace" THEN Len(snapshots) - 1 ELSE Len(snapshots)
       /\ run_pc \in {"persist", "trace"} => Len(lines) = rlm_round - 1
       /\ \A i \in DOMAIN trace :
             trace[i].stage = "error" =>
                /\ i = Len(trace)
                /\ i > 1
                /\ trace[i - 1].stage = StageOf(i - 1)
                /\ snapshots[i - 1].status = "error"
                /\ LastErrorOfRound(snapshots[i - 1].errors, i - 1)
       /\ (run_pc \notin {"persist", "trace"} /\ rlm_round >= 1 /\ round_error # "") =>
             /\ Len(trace) = rlm_round + 1
             /\ trace[Len(trace)].stage = "error"
       /\ (run_pc \notin {"persist", "trace"} /\ round_error = "") =>
             Len(trace) = rlm_round

\* the Decision round raised: four lines, the last one the error line
C18_Witness ==
    /\ run_pc = "done"
    /\ Len(trace) = 4
    /\ trace[3].stage = "decision"
    /\ trace[4].stage = "error"
    /\ Len(snapshots) = 3

(***************************************************************************)
(* Claims about examine_artifact.                                          *)
(***************************************************************************)
\* the call of c is over
ExamineOver(c) == ex_pc[c] \in {"returned", "raised"}

\* what the extraction from the stored content gives for the call of c
ExpectedGlimpse(c) ==
    LET record == ArtifactRows[ex_in[c].artifact_id]
    IN ExamineExtract(record.content, _build_spec(ex_in[c]), ex_in[c].artifact_id,
                      record.content_hash)

\* C19: a call of examine_artifact on a stored artifact returns, and what it
\* returns is the (glimpse_meta, glimpse_text) extracted from the content, with
\* or without a redis client and whatever the cache holds (an entry that
\* decodes, one that does not, none).
C19_CacheTransparency ==
    \A c \in Callers :
        (ExamineOver(c) /\ ex_in[c].artifact_id \in DOMAIN ArtifactRows) =>
            /\ ex_pc[c] = "returned"
            /\ ex_out[c].glimpse_meta = ExpectedGlimpse(c).glimpse_meta
            /\ ex_out[c].glimpse_text = ExpectedGlimpse(c).glimpse_text

(***************************************************************************)
(* Claims about concurrent requests.                                       *)
(***************************************************************************)
\* the payloads written into the row of the run of request t, in order
PersistedOf(t) ==
    LET writes == db_runs[rq_run_id[t]].writes
    IN [i \in DOMAIN writes |-> writes[i].payload]

\* every write into a row and every line of a trace file comes from the request
\* whose run_id it is
OwnWritesOnly ==
    /\ \A id \in DOMAIN db_runs : \A i \in DOMAIN db_runs[id].writes :
          rq_run_id[db_runs[id].writes[i].by] = id
    /\ \A id \in DOMAIN trace_files : \A i \in DOMAIN trace_files[id] :
          /\ rq_run_id[trace_files[id][i].by] = id
          /\ trace_files[id][i].run_id = id

\* C21: under every interleaving of concurrent requests, a request writes only
\* the row and the trace file of its own run_id, and the snapshots persisted for
\* its run are those the same request persists when it runs alone.
C21_ConcurrentRunsAreIsolated ==
    /\ OwnWritesOnly
    /\ \A t \in Requests :
          rq_run_id[t] # 0 =>
             /\ IsPrefix(PersistedOf(t), SoloSnapshots(rq_in[t]))
             /\ rq_pc[t] = "done" => PersistedOf(t) = SoloSnapshots(rq_in[t])

\* two different requests interleave: the one that inserted its row second has
\* persisted two rounds, the other one only one
C21_Witness ==
    /\ rq_in["t1"] # rq_in["t2"]
    /\ rq_run_id["t1"] = 2 /\ rq_run_id["t2"] = 1
    /\ Len(db_runs[2].writes) = 2
    /\ Len(db_runs[1].writes) = 1
    /\ db_runs[2].writes[2].payload.events # <<>>

\* what two executions are compared on
Compared(result) ==
    [program |-> result.program, glimpses |-> result.glimpses,
     final_answer |-> result.final_answer, citations |-> result.citations,
     status |-> result.status]

BlankQueries == {"", "  "}

\* request t left no trace of a run: no row, no payload, no trace line, no call
\* of a root-LM backend or of the executor
NoRunOf(t) ==
    /\ rq_run_id[t] = 0
    /\ \A id \in DOMAIN db_runs : \A i \in DOMAIN db_runs[id].writes :
          db_runs[id].writes[i].by # t
    /\ \A id \in DOMAIN trace_files : \A i \in DOMAIN trace_files[id] :
          trace_files[id][i].by # t
    /\ \A i \in DOMAIN rq_loc[t].calls : rq_loc[t].calls[i].op = "build_candidate_index"

\* C25: a request with a blank query is rejected with 400 before any retrieval,
\* a request for an unknown session with 404; a rejected request inserts no row,
\* calls no backend and no executor and writes no trace line.
C25_RejectedRequestsLeaveNothing ==
    /\ Len(db_runs) = Cardinality({ t \in Requests : rq_run_id[t] # 0 })
    /\ \A t \in Requests :
          /\ rq_pc[t] = "rejected" => NoRunOf(t)
          /\ rq_in[t].query \in BlankQueries =>
                /\ rq_pc[t] \in {"service", "rejected"}
                /\ rq_loc[t].calls = <<>>
                /\ rq_pc[t] = "rejected" => rq_resp[t].status_code = 400
          /\ (rq_in[t].query \notin BlankQueries /\ ~rq_in[t].session_known) =>
                /\ rq_pc[t] \in {"service", "setup", "rejected"}
                /\ rq_pc[t] = "rejected" => rq_resp[t].status_code = 404

\* one request rejected for a query of blanks, the other for its session, while
\* nothing was inserted
C25_Witness ==
    /\ rq_in["t1"].query = "  " /\ rq_pc["t1"] = "rejected"
    /\ rq_resp["t1"].detail = "empty_query_not_allowed"
    /\ ~rq_in["t2"].session_known /\ rq_pc["t2"] = "rejected"
    /\ rq_resp["t2"].status_code = 404
    /\ db_runs = <<>>

\* the rows of rlm_run_events of a run, in order
RunEventsOf(id) ==
    LET rows == SelectSeq(db_run_events, LAMBDA row : row.run_id = id)
    IN [i \in DOMAIN rows |-> rows[i].event]

\* C26: once a run has finished, rlm_run_events holds one row per event of the
\* run's events list.
C26_EventLogMatchesEvents ==
    \A t \in Requests :
        rq_pc[t] = "done" => RunEventsOf(rq_run_id[t]) = rq_loc[t].events

(***************************************************************************)
(* Claims about list_candidates.                                           *)
(***************************************************************************)
\* the artifact behind a candidate is active, of the session's project, not
\* of another session, and global only when include_global
FromOwnScope(c) ==
    \E row \in lc_in.artifacts :
        /\ row.id = c.artifact_id
        /\ row.status = "active"
        /\ row.project_id = SessionProject[lc_in.session_id]
        /\ row.scope = "session" => row.session_id = lc_in.session_id
        /\ row.scope = "global" => lc_in.opt.include_global

TypeAllowed(c) ==
    \E i \in DOMAIN lc_in.opt.allowed_types : lc_in.opt.allowed_types[i] = c.type

KeyNotBelow(a, b) ==
    \/ a.pinned /\ ~b.pinned
    \/ a.pinned = b.pinned /\ a.weight > b.weight
    \/ a.pinned = b.pinned /\ a.weight = b.weight
       /\ a.score_breakdown.hit_count >= b.score_breakdown.hit_count

\* C23: the candidates of a returned index are sorted by (pinned desc, weight
\* desc, hit_count desc) as the Candidate records hold them, and there are at
\* most top_k of them.
C23_CandidatesSortedByOwnKeys ==
    lc_pc = "returned" =>
        /\ Len(lc_out.index.candidates) <= lc_in.opt.top_k
        /\ \A i, j \in DOMAIN lc_out.index.candidates :
               i < j => KeyNotBelow(lc_out.index.candidates[i],
                                    lc_out.index.candidates[j])

(***************************************************************************)
(* Claims about the happy path of run_rlm.                                 *)
(***************************************************************************)
\* Mock root-LM, pipeline executor, no options.program, and options that
\* neither fail nor override the answer
HappyPathInput ==
    /\ run_in.rootlm_backend = "mock" /\ run_in.rootlm_arg = "none"
    /\ run_in.executor_backend = "real" /\ run_in.pipeline_loaded
    /\ run_in.program.kind = "none"
    /\ ~run_in.policy_scalar /\ ~run_in.vars_scalar /\ ~run_in.glimpses_meta_scalar
    /\ run_in.citations # ScalarValue
    /\ run_in.final_answer = NoneStr

\* C27: on the happy path with a first candidate whose text is stored and not
\* empty, the persisted program is select of that candidate then glimpse head
\* n=800 of it, the run returns status "ok" with a glimpse whose text is a
\* prefix of the content and final_answer "Mock answer for: " + query; with an
\* empty index the program has no steps and the run returns status "ok".
C27_MockHappyPath ==
    (HappyPathInput /\ run_result.returned) =>
        LET last == snapshots[Len(snapshots)]
        IN IF run_in.candidates = <<>>
           THEN /\ last.program.steps = <<>>
                /\ last.status = "ok" /\ run_result.status = "ok"
           ELSE LET id == run_in.candidates[1].artifact_id
                IN run_in.store[id] # "" =>
                     /\ Len(last.program.steps) = 2
                     /\ last.program.steps[1].action = "select"
                     /\ last.program.steps[1].selected_ids = <<id>>
                     /\ last.program.steps[2].action = "glimpse"
                     /\ last.program.steps[2].artifact_id = id
                     /\ last.program.steps[2].n = 800
                     /\ run_result.status = "ok"
                     /\ run_result.glimpses # <<>>
                     /\ \A i \in DOMAIN run_result.glimpses :
                            /\ run_result.glimpses[i].artifact_id = id
                            /\ IsPrefix(run_result.glimpses[i].text, run_in.store[id])
                     /\ run_result.final_answer = "Mock answer for: " \o run_in.query

\* a happy-path run over one stored candidate has returned
C27_Witness ==
    /\ HappyPathInput
    /\ run_result.returned
    /\ run_in.candidates # <<>>
    /\ run_in.store["a1"] = "Full content"
    /\ Len(snapshots) = 3
    /\ run_result.glimpses # <<>>

\* a happy-path run over an empty index has returned
C27_WitnessEmptyIndex ==
    /\ HappyPathInput
    /\ run_result.returned
    /\ run_in.candidates = <<>>
    /\ run_result.status = "ok"

(***************************************************************************)
(* Claims about the parsing of model output.                               *)
(***************************************************************************)
\* C28: for every raw text generate_program and generate_final return and do
\* not raise, and a result that is not parsed carries the empty-steps shell
\* (Plan) or the raw text as the answer (Decision).
C28_TolerantParsing ==
    vl_pc # "call" =>
        /\ vl_out.raised = ""
        /\ ~vl_out.parsed =>
             /\ vl_out.value = "shell"
             /\ vl_in.method = "generate_final" =>
                    vl_out.answer = TokStrip(vl_in.raw_text)

(***************************************************************************)
(* Claims about the pipeline executor.                                     *)
(***************************************************************************)
StepErrors(events) == { i \in DOMAIN events : events[i].status = "error" }

\* C29: once the failed steps exceed max_event_errors the executor has emitted
\* an event_error_threshold record and stopped: the last event is the
\* (max_event_errors+1)-th step error and no later step ran.
C29_ThresholdRecordAndStop ==
    (pe_pc = "returned" /\ pe_out.error_count > PipelineMaxEventErrors) =>
        /\ pe_out.stopped
        /\ Cardinality(StepErrors(pe_out.events)) = PipelineMaxEventErrors + 1
        /\ pe_out.events[Len(pe_out.events)].status = "error"
        /\ \E i \in DOMAIN pe_out.events :
               \/ pe_out.events[i].action = "event_error_threshold"
               \/ pe_out.events[i].error = "event_error_threshold"

\* the n the head glimpse of a step is specified to use: the default when the
\* step has no numeric n
SpecifiedN(step) == IF step.n.kind = "int" THEN step.n.v ELSE MaxGlimpseChars

\* C30: a recorded head glimpse is the prefix of the artifact text of length
\* min(n, max_glimpse_chars) capped at the text length, never longer than
\* max_glimpse_chars, with span [0, length of the glimpse text).
C30_HeadGlimpseLength ==
    pe_pc = "returned" =>
        \A i \in DOMAIN pe_out.glimpses :
            LET g == pe_out.glimpses[i]
                step == pe_in[g.glimpse_meta.step]
                text == PipeStore[g.artifact_id]
            IN /\ IsPrefix(g.text, text)
               /\ Len(g.text) = Min2(Min2(SpecifiedN(step), MaxGlimpseChars), Len(text))
               /\ Len(g.text) <= MaxGlimpseChars
               /\ g.span = [start |-> 0, end |-> Len(g.text)]

(***************************************************************************)
(* Claims about the glimpse modes and the select step of the executors.    *)
(***************************************************************************)
\* the range the specification gives for start and end on a text of length n
SpecifiedRange(start, end, n) ==
    LET s1 == IF start < 0 THEN 0 ELSE IF start > n THEN n ELSE start
        e1 == IF end <= 0 \/ end > n THEN n ELSE end
    IN IF e1 < s1 THEN [start |-> e1, end |-> s1] ELSE [start |-> s1, end |-> e1]

\* C31: a recorded range glimpse has a span with 0 <= start <= end <= len(text),
\* the span being start clamped into [0, len(text)], end replaced by len(text)
\* when end <= 0 or end > len(text), the two swapped when end < start, and its
\* text is text[start:end].
C31_RangeSpanWithinText ==
    pe_pc = "returned" =>
        \A i \in DOMAIN pe_out.glimpses :
            LET g == pe_out.glimpses[i]
                step == pe_in[g.glimpse_meta.step]
                text == PipeStore[g.artifact_id]
            IN g.mode = "range" =>
                 /\ 0 <= g.span.start /\ g.span.start <= g.span.end
                 /\ g.span.end <= Len(text)
                 /\ g.span = SpecifiedRange(step.start, step.end, Len(text))
                 /\ g.text = SubSeq(text, g.span.start + 1, g.span.end)

\* C32: a recorded grep glimpse has at most max_hits spans and never more than
\* the executor limit max_grep_hits; with window 0 the spans are the matches,
\* each the pattern, taken left to right without overlap.
C32_GrepHitsBounded ==
    pe_pc = "returned" =>
        \A i \in DOMAIN pe_out.glimpses :
            LET g == pe_out.glimpses[i]
                step == pe_in[g.glimpse_meta.step]
                text == PipeStore[g.artifact_id]
            IN g.mode = "grep" =>
                 /\ Len(g.span) <= _safe_int(step.max_hits, MaxGrepHits)
                 /\ Len(g.span) <= MaxGrepHits
                 /\ step.window = 0 =>
                      /\ \A k \in DOMAIN g.span :
                             SubSeq(text, g.span[k].start + 1, g.span[k].end) = step.pattern
                      /\ \A k \in 1..(Len(g.span) - 1) :
                             g.span[k].end <= g.span[k + 1].start

\* the steps that ran: one event each, numbered in order
StepsRun(result) == Len(result.events)

\* the result of the first k steps of the program alone
PrefixResult(k) ==
    PipelineExecute([kind |-> "dict_steps", steps |-> ReadSteps(SubSeq(pe_in, 1, k))],
                    PipeStore, <<>>)

\* C33: every glimpse of the result has a non-empty text, hash = SHA256(text)
\* and exactly one event of its step number, an ok glimpse event, and no other
\* glimpse has that step; a glimpse step that fails adds one error event, no
\* glimpse, and leaves the variables as they were before the step.
C33_GlimpseIntegrity ==
    pe_pc = "returned" =>
        /\ \A i \in DOMAIN pe_out.glimpses :
               LET g == pe_out.glimpses[i]
                   own == { k \in DOMAIN pe_out.events :
                               pe_out.events[k].step = g.glimpse_meta.step }
               IN /\ g.text # ""
                  /\ g.hash = _sha256(g.text)
                  /\ Cardinality(own) = 1
                  /\ \A k \in own : /\ pe_out.events[k].action = "glimpse"
                                    /\ pe_out.events[k].status = "ok"
                  /\ \A j \in DOMAIN pe_out.glimpses :
                         pe_out.glimpses[j].glimpse_meta.step = g.glimpse_meta.step => j = i
        /\ \A k \in DOMAIN pe_out.events :
               (pe_out.events[k].action = "glimpse" /\ pe_out.events[k].status = "error") =>
                   LET before == PrefixResult(k - 1)
                       after == PrefixResult(k)
                   IN /\ pe_out.events[k].step = k
                      /\ after.events = Append(before.events, pe_out.events[k])
                      /\ after.glimpses = before.glimpses
                      /\ after.selected_ids = before.selected_ids
                      /\ \A j \in DOMAIN pe_out.glimpses :
                             pe_out.glimpses[j].glimpse_meta.step # k

\* a select step, then a glimpse step that failed
C33_Witness ==
    /\ pe_pc = "returned"
    /\ Len(pe_in) = 2
    /\ pe_in[1].action = "select"
    /\ pe_out.selected_ids = <<"a1">>
    /\ pe_out.events[2].action = "glimpse" /\ pe_out.events[2].status = "error"
    /\ pe_out.glimpses = <<>>

\* a glimpse of mode grep and one of mode range were recorded
C33_WitnessGlimpses ==
    /\ pe_pc = "returned"
    /\ Len(pe_out.glimpses) = 2
    /\ pe_out.glimpses[1].mode = "grep"
    /\ pe_out.glimpses[2].mode = "range"

\* the select step validates: selected_ids is a list of non-empty strings
ValidSelect(step) ==
    /\ ~("shape" \in DOMAIN step)
    /\ \A i \in DOMAIN step.selected_ids :
           step.selected_ids[i] # "" /\ step.selected_ids[i] # NonStringId

\* the ids of the valid steps among the first k, appended (extend) or merged
RECURSIVE IdsOfValidSteps(_, _)
IdsOfValidSteps(k, merge) ==
    IF k = 0 THEN <<>>
    ELSE LET earlier == IdsOfValidSteps(k - 1, merge)
         IN IF ~ValidSelect(sx_in[k]) THEN earlier
            ELSE IF merge THEN MergeIds(earlier, sx_in[k].selected_ids)
            ELSE earlier \o sx_in[k].selected_ids

\* every step that ran has one event, an error exactly for the steps that fail
\* validation, and selected_ids holds the ids of the valid steps only
SelectFrame(result, merge) ==
    result.ran =>
        /\ Len(result.events) <= Len(sx_in)
        /\ \A k \in DOMAIN result.events :
               /\ result.events[k].step = k
               /\ result.events[k].status = (IF ValidSelect(sx_in[k]) THEN "ok" ELSE "error")
        /\ result.selected_ids = IdsOfValidSteps(Len(result.events), merge)

\* C40: a select step that fails validation leaves selected_ids as before the
\* step in both executors and contributes one error event.
C40_FailedSelectChangesNothing ==
    /\ SelectFrame(sx_out.program_executor, FALSE)
    /\ SelectFrame(sx_out.pipeline_executor, TRUE)

\* both executors ran a valid select, then one whose second id is no string
C40_Witness ==
    /\ sx_out.program_executor.ran /\ sx_out.pipeline_executor.ran
    /\ Len(sx_in) >= 2
    /\ ValidSelect(sx_in[1]) /\ sx_in[1].selected_ids # <<>>
    /\ sx_in[2].selected_ids = <<"a3", NonStringId>>
    /\ sx_out.program_executor.selected_ids # <<>>
    /\ sx_out.pipeline_executor.events[2].status = "error"

\* two calls of different runs that examine the same stored artifact with the
\* same spec through a redis client
SameGlimpseTwoRuns(c, d) ==
    /\ c # d
    /\ ex_in[c].run_id # ex_in[d].run_id
    /\ ex_in[c].artifact_id = ex_in[d].artifact_id
    /\ ex_in[c].artifact_id \in DOMAIN ArtifactRows
    /\ ex_in[c].content_hash = ex_in[d].content_hash
    /\ ex_in[c].head_chars = ex_in[d].head_chars
    /\ ex_in[c].glimpse_id = "" /\ ex_in[d].glimpse_id = ""
    /\ ex_in[c].has_client /\ ex_in[d].has_client

\* C34: the cache key of a glimpse is a function of (artifact_id, content_hash,
\* spec) and of no run-scoped state: two runs that examine the same artifact,
\* hash and spec both return, the entry is stored under that one key and both
\* return the same glimpse.
C34_RunsShareCacheEntry ==
    \A c, d \in Callers :
        (SameGlimpseTwoRuns(c, d) /\ ExamineOver(c) /\ ExamineOver(d)) =>
            LET record == ArtifactRows[ex_in[c].artifact_id]
                key == make_glimpse_key(ex_in[c].artifact_id, record.content_hash,
                                        _build_spec(ex_in[c]))
            IN /\ ex_pc[c] = "returned" /\ ex_pc[d] = "returned"
               /\ \E i \in DOMAIN cache : cache[i].key = key
               /\ ex_out[c].glimpse_text = ex_out[d].glimpse_text
               /\ ex_out[c].glimpse_meta = ex_out[d].glimpse_meta

\* C37: in every snapshot persisted by run_rlm, evidence is
\* [{events: E}, {glimpses: G}, {subcalls: S}] with E, G and S the events,
\* glimpses and subcalls of that same snapshot, also when the Examine round
\* raised part way through.
C37_EvidenceMatchesSnapshot ==
    \A i \in DOMAIN snapshots :
        snapshots[i].evidence = << [events |-> snapshots[i].events],
                                   [glimpses |-> snapshots[i].glimpses],
                                   [subcalls |-> snapshots[i].subcalls] >>

\* how many calls of the operation were made
CallCount(op) == Cardinality({ i \in DOMAIN calls : calls[i].op = op })

\* the place of an operation in the order Plan, Examine, Decision
RoundOfCall(op) ==
    CASE op = "generate_program" -> 1
      [] op = "execute" -> 2
      [] OTHER -> 3

\* what the executor returned to the Examine round
ExecutionOf ==
    IF rlm_executor = "real"
    THEN RealExecute(rlm_program, run_in.store, run_in.candidates, run_in)
    ELSE MockExecute(rlm_program, run_in)

\* the rounds run in the order Plan, Examine, Decision, each at most once, a
\* round only after a round that left the status "ok"; generate_final is called
\* at most twice, the second time on the Mock backend after the vllm call raised
ForwardOnly ==
    /\ Len(snapshots) <= 3
    /\ \A i \in DOMAIN snapshots : snapshots[i].round = i
    /\ \A i \in DOMAIN snapshots : i > 1 => snapshots[i - 1].status = "ok"
    /\ \A i, j \in DOMAIN calls :
           i < j => /\ RoundOfCall(calls[i].op) <= RoundOfCall(calls[j].op)
                    /\ calls[i].op # calls[j].op
    /\ CallCount("generate_program") <= 1 /\ CallCount("execute") <= 1
    /\ CallCount("generate_final:vllm") + CallCount("generate_final:mock") <= 2
    /\ (Called("generate_final:vllm") /\ Called("generate_final:mock")) =>
           /\ CallRaised("generate_final:vllm")
           /\ \A i, j \in DOMAIN calls :
                  (calls[i].op = "generate_final:vllm" /\ calls[j].op = "generate_final:mock")
                      => i < j
    /\ Called("execute") => (Called("generate_program") /\ snapshots[1].status = "ok")
    /\ GenerateFinalCalled => (Called("execute") /\ snapshots[2].status = "ok")

\* the run ended after Examine with the status the executor returned
EndsAfterExamine ==
    /\ run_result.status = NormalStatus(ExecutionOf.status)
    /\ run_result.final_answer = NoneStr
    /\ Len(snapshots) = 2
    /\ ~GenerateFinalCalled

\* an executor result with a non-ok status ends the run after Examine
NonOkExecutorEndsRun ==
    (run_result.returned /\ Called("execute") /\ ~CallRaised("execute")
       /\ NormalStatus(ExecutionOf.status) # "ok") => EndsAfterExamine

\* the same for an Examine round that did not raise after the executor returned
NonOkExecutorEndsRunUnlessRaised ==
    (run_result.returned /\ Called("execute") /\ ~CallRaised("execute")
       /\ ~HasStage(rlm_errors, "round2")
       /\ NormalStatus(ExecutionOf.status) # "ok") => EndsAfterExamine

C38_WitnessTwoFinals ==
    /\ run_pc = "done" /\ run_result.returned
    /\ CallRaised("generate_final:vllm") /\ Called("generate_final:mock")
    /\ Len(snapshots) = 3

(***************************************************************************)
(* Claims about assemble_decisions and run_llm_judge.                      *)
(***************************************************************************)
\* the places of the decisions for the artifact, in round order
DecisionsFor(id) == { k \in DOMAIN ad_in.decisions : ad_in.decisions[k].artifact_id = id }

\* the latest decision for the artifact
LatestDecision(id) ==
    ad_in.decisions[CHOOSE k \in DecisionsFor(id) : \A j \in DecisionsFor(id) : j <= k]

\* the highest score the decisions for the artifact carry (0.0 without a score)
MaxScoreSeen(id) ==
    LET scores == { _coerce_float(ad_in.decisions[k].score, 0) : k \in DecisionsFor(id) }
    IN CHOOSE v \in scores : \A w \in scores : w <= v

Selected(id) == \E i \in DOMAIN ad_out.selected : ad_out.selected[i].artifact_id = id

\* C35: per artifact_id the aggregated score is the maximum score seen and
\* include is the one of the latest decision; an unpinned artifact whose latest
\* decision is a drop is not in selected.
C35_LatestDecisionWins ==
    ad_out.done =>
        /\ \A id \in DOMAIN ad_out.aggregated :
               /\ DecisionsFor(id) # {}
               /\ ad_out.aggregated[id].score = IntN(MaxScoreSeen(id))
               /\ ad_out.aggregated[id].include.value = _decision_include(LatestDecision(id))
        /\ \A i \in DOMAIN ad_in.candidates :
               LET candidate == ad_in.candidates[i]
               IN (~candidate.pinned /\ DecisionsFor(candidate.artifact_id) # {}
                     /\ ~_decision_include(LatestDecision(candidate.artifact_id)))
                      => ~Selected(candidate.artifact_id)

\* the pinned candidates
PinnedCandidates == { i \in DOMAIN ad_in.candidates : ad_in.candidates[i].pinned }

\* the unpinned entries of selected
UnpinnedSelected == { i \in DOMAIN ad_out.selected : ~ad_out.selected[i].pinned }

\* some decision for the artifact is not a drop
HasNonDropDecision(id) ==
    \E k \in DecisionsFor(id) : _decision_include(ad_in.decisions[k])

\* C36: with drop_pinned = false every pinned candidate is in selected whatever
\* its decisions and the budget, pinned entries precede unpinned ones, unpinned
\* entries fill the remaining budget only and selected has at most
\* max(budget, number of pinned candidates) entries; with drop_pinned = true
\* selected has at most budget entries and a pinned candidate needs a non-drop
\* decision.  A negative budget counts as 0.
C36_PinnedForcedIn ==
    ad_out.done =>
        LET selected == ad_out.selected
            budget == Max2(ad_in.budget, 0)
            pinned == Cardinality(PinnedCandidates)
        IN IF ~ad_in.drop_pinned
           THEN /\ \A i \in PinnedCandidates : Selected(ad_in.candidates[i].artifact_id)
                /\ \A i, j \in DOMAIN selected :
                       (i < j /\ selected[j].pinned) => selected[i].pinned
                /\ Cardinality(UnpinnedSelected) <= Max2(budget - pinned, 0)
                /\ Len(selected) <= Max2(budget, pinned)
           ELSE /\ Len(selected) <= budget
                /\ \A i \in DOMAIN selected : HasNonDropDecision(selected[i].artifact_id)

\* two pinned candidates, one of them dropped by its decision, exceed the
\* budget of 1 and leave no room for the unpinned candidate that was kept
C36_Witness ==
    /\ ad_out.done /\ ~ad_in.drop_pinned /\ ad_in.budget = 1
    /\ Cardinality(PinnedCandidates) = 2
    /\ DecisionsFor("a1") # {} /\ ~HasNonDropDecision("a1")
    /\ HasNonDropDecision("a2")
    /\ Len(ad_out.selected) = 2
    /\ ~Selected("a2")

\* drop_pinned: the pinned candidate without a decision stays out, the one
\* with a keep decision is selected
C36_WitnessDropPinned ==
    /\ ad_out.done /\ ad_in.drop_pinned /\ ad_in.budget = 2
    /\ Cardinality(PinnedCandidates) = 2
    /\ Selected("a1") /\ ~Selected("a3")

\* the last round of the result holds a parsed decision
LastRoundDecided ==
    jd_out.rounds # <<>> /\ jd_out.rounds[Len(jd_out.rounds)].decision

\* C39: run_llm_judge invokes the judge, plan and decision calls together and
\* calls that raise included, at most max_llm_calls times; it returns
\* degraded = false with no fallback exactly when its last round holds a parsed
\* decision, and degraded = true with a fallback of at most fallback_top_k ids
\* otherwise.
C39_JudgeCallsBounded ==
    /\ jd_st.invocations <= Max2(jd_in.max_llm_calls, 0)
    /\ jd_pc = "returned" =>
           /\ (~jd_out.degraded /\ jd_out.fallback = NoFallback) <=> LastRoundDecided
           /\ ~LastRoundDecided =>
                  /\ jd_out.degraded
                  /\ jd_out.fallback.mode = "deterministic"
                  /\ Len(jd_out.fallback.selected_ids) <= jd_in.fallback_top_k

====
